---- MODULE Spec2Model ----
(***************************************************************************)
(* The agent execution engine (AgentRunner), the Anthropic client's chat   *)
(* retry loop and the rate limiter's 429 handling, as a state machine.     *)
(* One action is one uninterrupted stretch of JavaScript: from one await   *)
(* (fetch, sleep, tool.execute) to the next.                               *)
(***************************************************************************)
EXTENDS Integers, Sequences, FiniteSets, TLC

\* ---------------------------------------------------------------- bounds
MaxIter == 2          \* largest configured maxIterations explored
MaxTools == 2         \* most tool_use blocks in one response
MaxRuns == 2          \* run()/resume() calls made on the instance
MaxMixedFailures == 3 \* failed requests in a run whose failures are of mixed kinds
MaxPosts == 3         \* POST requests the quota proxy receives between restarts
MaxRestarts == 1      \* restarts of the proxy's worker
MaxStreams == 1       \* chatStream calls of another user of the client that end
MaxSubscriptionChanges == 1 \* on() and unsubscribe calls after construction
MaxValidations == 2   \* calls of validateApiKey made on the client
MaxValidationFailures == 3 \* validation requests that fail, over all the calls

\* ------------------------------------------------------ program constants
MAX_CONSECUTIVE_ERRORS == 3
MAX_RETRIES == 3
DEFAULT_MAX_ITERATIONS == 50
DEFAULT_CHECKPOINT_INTERVAL == 3

VARIABLES
  env,        \* configuration and collaborators' behaviour, fixed at construction
  run,        \* run[r]: the locals of one executeLoop invocation (and what it emitted)
  abortCtl,   \* this.abortController: [exists, aborted]
  stored,     \* what the checkpoint callback persisted last (a snapshot)
  cpCalls,    \* invocations of the checkpoint callback
  rateLimiter,\* client.rateLimiter is non-null
  started,    \* run()/resume() calls so far
  subscriptions, \* this.listeners of the engine, and the changes made to it
  budgetExhausted, \* the quota proxy's module-level flag
  posts,      \* posts[p]: one invocation of the proxy's onRequestPost
  got,        \* the last answer of the proxy's onRequestGet
  worker,     \* the proxy's worker: restarts so far, whether the flag was set since
  validation, \* validation[c]: one call of client.validateApiKey, its locals
  limiter,    \* a RateLimiter: usageHistory, the clock, what its getters returned
  session,    \* the checkpoint store of one session and the saves made to it
  edit,       \* one call of validateMessageEdit: its arguments and its result
  tracking,   \* one call of splitMessagesByPhase / assignEventsToPhases
  logger      \* a Logger: its queue, the flushes in progress, the log file

proxyVars == <<budgetExhausted, posts, got, worker>>
engineVars == <<env, run, abortCtl, stored, cpCalls, rateLimiter, started,
                subscriptions>>
utilVars == <<limiter, session, edit, tracking, logger>>
libVars == <<validation, utilVars>>
vars == <<env, run, abortCtl, stored, cpCalls, rateLimiter, started,
         subscriptions, budgetExhausted, posts, got, worker, validation,
         limiter, session, edit, tracking, logger>>

Runs == 1..MaxRuns

\* ------------------------------------------------------------ data model
NoCheckpoint == [none |-> TRUE]
NoResult == [none |-> TRUE]
NoError == [anth |-> FALSE, status |-> 0, retryAfterMs |-> 0, msg |-> "none"]

\* AnthropicError(message, status, type, retryAfterMs); a fetch failure is a
\* plain TypeError (anth = FALSE).
AnthropicError(status, retryAfterMs) ==
  [anth |-> TRUE, status |-> status, retryAfterMs |-> retryAfterMs, msg |-> "api"]
NetworkError == [anth |-> FALSE, status |-> 0, retryAfterMs |-> 0, msg |-> "network"]
CheckpointError == [anth |-> FALSE, status |-> 0, retryAfterMs |-> 0, msg |-> "checkpoint"]
StoppedError == [anth |-> FALSE, status |-> 0, retryAfterMs |-> 0, msg |-> "Agent execution was stopped"]
\* The TypeError of reading .message of null or of undefined.
MessageTypeError(value) ==
  [anth |-> FALSE, status |-> 0, retryAfterMs |-> 0,
   msg |-> IF value = "null"
           THEN "Cannot read properties of null (reading 'message')"
           ELSE "Cannot read properties of undefined (reading 'message')"]

isRateLimited(e) == e.status = 429
isOverloaded(e) == e.status = 529

\* The ghost record of a tool_use that named no tool of the catalog.
Unknown == [kind |-> "unknown"]

\* The tool catalog of the configuration (config.tools).
Catalog == {"list_directory", "read_file", "noop"}
findTool(name) == name \in Catalog

\* A variant that answers under an id of its own.
createToolResult_ownId(toolUseId, result, isError) ==
  [type |-> "tool_result", tool_use_id |-> <<"toolu", 0, 0>>, content |-> result,
   shape |-> "text", is_error |-> isError]

\* createToolResult / createToolResultWithImage
createToolResult(toolUseId, result, isError) ==
  [type |-> "tool_result", tool_use_id |-> toolUseId, content |-> result,
   shape |-> "text", is_error |-> isError]

\* The data URL must match /^data:(image\/\w+);base64,(.+)$/, else this throws.
DataUrlMatches(dataUrl) == dataUrl = "data:image/png;base64,AAAA"
createToolResultWithImage(toolUseId, text, dataUrl, isError) ==
  [type |-> "tool_result", tool_use_id |-> toolUseId, content |-> text,
   shape |-> "text+image", is_error |-> isError]

\* ------------------------------------------------------- the run record
EvZero ==
  [status_running |-> 0, status_complete |-> 0, status_error |-> 0,
   resuming |-> 0, user_message |-> 0, assistant_message |-> 0,
   thinking |-> 0, tool_call |-> 0, tool_result |-> 0, discovery |-> 0,
   error_tool |-> 0, error_retry |-> 0, error_fatal |-> 0, complete |-> 0,
   rl_waiting |-> 0, rl_resumed |-> 0, rl_usage |-> 0]

IdleRun ==
  [pc |-> "idle", kind |-> "none", seed |-> NoCheckpoint,
   status |-> "idle", messages |-> <<>>, discoveries |-> <<>>,
   tokenUsage |-> [input |-> 0, output |-> 0], error |-> "none",
   iteration |-> 0, consecutiveErrors |-> 0,
   attempt |-> 0, lastError |-> NoError,
   toolUses |-> <<>>, toolIdx |-> 0, toolResults |-> <<>>,
   result |-> NoResult,
   ev |-> EvZero, rlLog |-> <<>>,
   chatCalls |-> 0, failures |-> 0, failStreak |-> 0, chatStreak |-> 0,
   okCalls |-> 0, usageSum |-> [input |-> 0, output |-> 0],
   priorCalls |-> 0, priorToolOnly |-> TRUE,
   rlSleepMs |-> 0, backoffs |-> 0, engineSleeps |-> 0,
   outcomes |-> <<>>, executed |-> <<>>, maxCe |-> 0,
   onlyOverload |-> TRUE, onlyToolUse |-> TRUE, stopSeen |-> FALSE,
   cpThrew |-> FALSE, turnMsg |-> 0, firstStop |-> "none", firstText |-> "",
   fresh |-> FALSE, immStop |-> FALSE, stopReq |-> FALSE, toolCrash |-> FALSE,
   staleStop |-> FALSE, streamed |-> 0,
   log |-> <<>>, heard |-> [i \in 1..Len(env.listeners) |-> <<>>],
   emitThrew |-> FALSE, sent |-> <<>>]

\* The listener functions there are: env.listeners[i] is what function i
\* does when it is called.  this.listeners holds the numbers of the
\* subscribed ones, in subscription order; heard[i] is what function i
\* was called with.
Deliveries(event, n) == [k \in 1..n |-> event]

\* A variant of emit without the try/catch around the listener: the first
\* listener that throws ends the delivery and the exception leaves emit.
emit_unguarded(heard, event) ==
  LET ls == subscriptions.listeners
      called(k) == \A j \in 1..(k - 1) : env.listeners[ls[j]] # "throws"
  IN [heard |-> [i \in 1..Len(heard) |->
                   heard[i] \o Deliveries(event,
                     Cardinality({k \in 1..Len(ls) : ls[k] = i /\ called(k)}))],
      threw |-> \E k \in 1..Len(ls) : env.listeners[ls[k]] = "throws"]

\* emit(event): every entry of this.listeners is called, in subscription
\* order; an exception of a listener is caught and logged.
emit(heard, event) ==
  LET ls == subscriptions.listeners
  IN [heard |-> [i \in 1..Len(heard) |->
                   heard[i] \o Deliveries(event,
                     Cardinality({k \in 1..Len(ls) : ls[k] = i}))],
      threw |-> FALSE]

\* this.emit({type: e, ...}); arg is the part of the payload kept.
EmitEvent(s, e, arg) ==
  LET event == [type |-> e, arg |-> arg]
      d == emit(s.heard, event)
  IN [s EXCEPT !.ev[e] = @ + 1, !.log = Append(@, event),
               !.heard = d.heard, !.emitThrew = @ \/ d.threw]

Emit(s, e) == EmitEvent(s, e, <<>>)

\* The engine's subscription to the client's rate limit events
\* (constructor): waiting -> rate_limit{waiting: true}; resumed and
\* usage_update -> rate_limit{waiting: false}.
\* The event keeps for whom the limiter acted: nothing for the engine's
\* own chat call, the name of the call for another user of the client.
ForChat == <<>>
ForChatStream == <<"chatStream">>
EmitRateLimitFor(s, e, waitMs, caller) ==
  [EmitEvent(s, IF e = "waiting" THEN "rl_waiting"
                ELSE IF e = "resumed" THEN "rl_resumed" ELSE "rl_usage", caller)
     EXCEPT !.rlLog = Append(@, [waiting |-> e = "waiting", waitMs |-> waitMs,
                                 cause |-> e])]
EmitRateLimit(s, e, waitMs) == EmitRateLimitFor(s, e, waitMs, ForChat)

\* ------------------------------------------------------------ checkpoint
Snapshot(s, iteration) ==
  [messages |-> s.messages, discoveries |-> s.discoveries,
   tokenUsage |-> s.tokenUsage, iteration |-> iteration,
   \* not part of the checkpoint: the successful transport calls behind
   \* it, and whether every one of them requested tools
   done |-> s.priorCalls + s.okCalls,
   toolOnly |-> s.priorToolOnly /\ s.onlyToolUse]

\* Whether the n-th invocation of the injected callback throws.
CallbackThrows(n) ==
  \/ env.callback = "throws"
  \/ env.callback = "throwsFirst" /\ n = 1

\* A variant that never invokes the callback.
saveCheckpoint_skipped(w, iteration) == [w EXCEPT !.threw = FALSE]

\* saveCheckpoint(state, iteration); w.threw tells whether it threw.
saveCheckpoint(w, iteration) ==
  IF env.callback = "none" THEN [w EXCEPT !.threw = FALSE]
  ELSE IF CallbackThrows(w.cpCalls + 1)
       THEN [w EXCEPT !.cpCalls = @ + 1, !.threw = TRUE, !.s.cpThrew = TRUE]
       ELSE [w EXCEPT !.cpCalls = @ + 1, !.threw = FALSE,
                      !.stored = Snapshot(w.s, iteration)]

\* ------------------------------------------------- executeLoop: the ends
ResultOf(s, success, summary) ==
  [success |-> success, summary |-> summary, discoveries |-> s.discoveries,
   conversationHistory |-> s.messages, tokenUsage |-> s.tokenUsage]

\* A variant of the outer catch that rethrows.
OuterCatch_rethrow(w, err) ==
  [saveCheckpoint(w, w.s.iteration) EXCEPT !.s.pc = "rejected"]

\* A variant of the outer catch that reports the error before the status.
OuterCatch_errorFirst(w, err) ==
  LET w1 == saveCheckpoint(w, w.s.iteration) IN
  IF w1.threw THEN [w1 EXCEPT !.s.pc = "rejected"]
  ELSE LET s1 == [w1.s EXCEPT !.status = "error", !.error = err.msg]
           s2 == Emit(Emit(s1, "error_fatal"), "status_error")
       IN [w1 EXCEPT !.s = [s2 EXCEPT !.pc = "done",
                   !.result = ResultOf(s2, FALSE, <<"Agent error: ", err.msg>>)]]

\* The outer catch: checkpoint, status error, two events, the result.  An
\* exception of the callback here leaves executeLoop: the promise rejects.
OuterCatch(w, err) ==
  LET w1 == saveCheckpoint(w, w.s.iteration) IN
  IF w1.threw THEN [w1 EXCEPT !.s.pc = "rejected"]
  ELSE LET s1 == [w1.s EXCEPT !.status = "error", !.error = err.msg]
           s2 == Emit(Emit(s1, "status_error"), "error_fatal")
       IN [w1 EXCEPT !.s = [s2 EXCEPT !.pc = "done",
                   !.result = ResultOf(s2, FALSE, <<"Agent error: ", err.msg>>)]]

\* After the while loop: maximum iterations reached.
MaxIterationsReached(w) ==
  LET w1 == saveCheckpoint(w, w.s.iteration) IN
  IF w1.threw THEN OuterCatch(w1, CheckpointError)
  ELSE LET s1 == [w1.s EXCEPT !.status = "error",
                              !.error = "Maximum iterations reached"]
           s2 == Emit(Emit(s1, "status_error"), "error_fatal")
       IN [w1 EXCEPT !.s = [s2 EXCEPT !.pc = "done",
                   !.result = ResultOf(s2, FALSE,
                     <<"Agent reached maximum iterations without completing.">>)]]

\* A variant that retries every error of the API.
isRetryable_anyApiError(e) == e.anth

\* A variant that retries rate limits only.
isRetryable_rateLimitOnly(e) == e.anth /\ isRateLimited(e)

isRetryable(e) ==
  e.anth /\ (isRateLimited(e) \/ isOverloaded(e) \/ e.status >= 500)

\* The inner catch around the transport call and the tool dispatch.
InnerCatch(w, err) ==
  LET ce == w.s.consecutiveErrors + 1
      w0 == [w EXCEPT !.s.consecutiveErrors = ce,
                      !.s.maxCe = IF ce > @ THEN ce ELSE @]
      w1 == saveCheckpoint(w0, w0.s.iteration)
  IN IF w1.threw THEN OuterCatch(w1, CheckpointError)
     ELSE IF isRetryable(err) /\ ce < MAX_CONSECUTIVE_ERRORS
          THEN [w1 EXCEPT !.s = [Emit(w1.s, "error_retry") EXCEPT
                            !.pc = "esleep", !.engineSleeps = @ + 1]]
          ELSE OuterCatch(w1, err)

\* makeRequest: the fetch is sent; the next action is its answer.
SendRequest(w) ==
  [w EXCEPT !.s.pc = "http"]

\* A variant that sends the latest message only.
chat_lastMessageOnly(w) ==
  SendRequest([w EXCEPT !.s.attempt = 0, !.s.lastError = NoError,
                        !.s.chatCalls = @ + 1,
                        !.s.sent = <<w.s.messages[Len(w.s.messages)]>>])

\* client.chat({messages: state.messages, ...}) is entered: attempt = 0 and
\* the first request; sent is the history the request carries.
chat(w) ==
  SendRequest([w EXCEPT !.s.attempt = 0, !.s.lastError = NoError,
                        !.s.chatCalls = @ + 1, !.s.sent = w.s.messages])

\* A variant whose loop test is off by one.
maxIterations_offByOne == env.maxIterations + 1

maxIterations == IF env.maxIterations # 0 THEN env.maxIterations
                 ELSE DEFAULT_MAX_ITERATIONS

\* The head of the while loop up to the transport call.
LoopTop(w) ==
  IF w.s.iteration < maxIterations
  THEN IF w.aborted
       THEN LET w1 == saveCheckpoint([w EXCEPT !.s.stopSeen = TRUE], w.s.iteration) IN
            IF w1.threw THEN OuterCatch(w1, CheckpointError)
            ELSE OuterCatch(w1, StoppedError)
       ELSE LET it == w.s.iteration + 1
                w0 == [w EXCEPT !.s.iteration = it]
                w1 == IF env.checkpointInterval # 0
                         /\ it % env.checkpointInterval = 0
                      THEN saveCheckpoint(w0, it)
                      ELSE [w0 EXCEPT !.threw = FALSE]
            IN IF w1.threw THEN OuterCatch(w1, CheckpointError)
               ELSE chat(w1)
  ELSE MaxIterationsReached(w)

\* ------------------------------------------------- discovery extraction
\* identifyDataType(content, path): "JSON", "CSV" or "null".  Contents are
\* "json" (parses as JSON), "csv" (commas on several lines) and "lines"
\* (several lines without commas).
EndsWithCsv(path) == path = "a.csv"
identifyDataType(content, path) ==
  IF content = "json" THEN "JSON"
  ELSE IF EndsWithCsv(path) \/ content = "csv" THEN "CSV"
  ELSE "null"

HasId(discoveries, id) ==
  \E i \in 1..Len(discoveries) : discoveries[i].id = id

\* A variant without the "already discovered" test.
AddDiscovery_noDedup(s, d) ==
  EmitEvent([s EXCEPT !.discoveries = Append(@, d)], "discovery", d.id)

\* "Only add if not already discovered": push and emit a discovery event.
AddDiscovery(s, d) ==
  IF HasId(s.discoveries, d.id) THEN s
  ELSE EmitEvent([s EXCEPT !.discoveries = Append(@, d)], "discovery", d.id)

EntryDiscovery(entry) ==
  [id |-> <<entry.kind, "-", entry.path>>,
   type |-> IF entry.kind = "directory" THEN "directory" ELSE "file",
   path |-> entry.path,
   description |-> <<IF entry.kind = "directory" THEN "Directory" ELSE "File",
                     ": ", entry.name>>,
   metadata |-> <<>>]

RECURSIVE AddEntries(_, _)
AddEntries(s, entries) ==
  IF entries = <<>> THEN s
  ELSE AddEntries(AddDiscovery(s, EntryDiscovery(Head(entries))), Tail(entries))

FileDiscovery(path, data) ==
  IF data.format # "none"
  THEN [id |-> <<"data-type", "-", path>>, type |-> "data_type", path |-> path,
        description |-> <<data.format, " file: ", path, data.columns>>,
        metadata |-> <<data.format, data.columns>>]
  ELSE [id |-> <<"data-type", "-", path>>, type |-> "data_type", path |-> path,
        description |-> <<identifyDataType(data.content, path), " data in ", path>>,
        metadata |-> <<identifyDataType(data.content, path)>>]

\* result.data is truthy: the data is there (an array or an object).
HasData(result) == result.data.t # "none"
\* for (const entry of entries): only an array can be iterated; another
\* object gives the TypeError "entries is not iterable".
IsIterable(data) == data.t = "entries"
NotIterable == "entries is not iterable"

\* What extractDiscoveries leaves: the state, and whether it threw.
Extracted(s) == [s |-> s, threw |-> FALSE]
ExtractThrew(s) == [s |-> s, threw |-> TRUE]

\* A variant that looks at the listings of failed results too.
extractDiscoveries_onFailure(toolName, input, result, s) ==
  IF toolName = "list_directory" /\ HasData(result)
  THEN IF IsIterable(result.data)
       THEN Extracted(AddEntries(s, result.data.entries))
       ELSE ExtractThrew(s)
  ELSE Extracted(s)

extractDiscoveries(toolName, input, result, s) ==
  IF ~result.success THEN Extracted(s)
  ELSE IF toolName = "list_directory" /\ HasData(result)
       THEN IF IsIterable(result.data)
            THEN Extracted(AddEntries(s, result.data.entries))
            ELSE ExtractThrew(s)
  ELSE IF toolName = "read_file" /\ result.data.t = "file"
       THEN IF result.data.format # "none"
            THEN Extracted(AddDiscovery(s, FileDiscovery(input, result.data)))
            ELSE IF result.data.content # "none"
                    /\ identifyDataType(result.data.content, input) # "null"
                 THEN Extracted(AddDiscovery(s, FileDiscovery(input, result.data)))
                 ELSE Extracted(s)
  ELSE Extracted(s)

\* -------------------------------------------------- the tool dispatch
UserText(p) == [role |-> "user", text |-> p, blocks |-> <<>>]
\* A variant that appends the answer under the wrong role.
AssistantMessage_asUser(resp) ==
  [role |-> "user", text |-> resp.text, blocks |-> resp.toolUses]
AssistantMessage(resp) ==
  [role |-> "assistant", text |-> resp.text, blocks |-> resp.toolUses]
ToolResultsMessage(toolResults) ==
  [role |-> "user", text |-> "", blocks |-> toolResults]

\* The for loop over toolUses from position toolIdx: unknown tools get an
\* error result at once; a known tool's execute is called and awaited.
\* After the last tool the aggregated user message is pushed and the while
\* loop goes round.
RECURSIVE ToolLoop(_)
ToolLoop(w) ==
  LET s == w.s IN
  IF s.toolIdx > Len(s.toolUses)
  THEN LoopTop([w EXCEPT !.s.messages = Append(@, ToolResultsMessage(s.toolResults)),
                         !.s.turnMsg = Len(s.messages) + 1])
  ELSE LET toolUse == s.toolUses[s.toolIdx]
           s1 == Emit(s, "tool_call")
       IN IF ~findTool(toolUse.name)
          THEN ToolLoop([w EXCEPT !.s = [s1 EXCEPT
                 !.toolResults = Append(@, createToolResult(toolUse.id,
                                     <<"Unknown tool: ", toolUse.name>>, TRUE)),
                 !.outcomes = Append(@, Unknown),
                 !.toolIdx = @ + 1]])
          ELSE [w EXCEPT !.s = [s1 EXCEPT !.pc = "tool",
                                 !.executed = Append(@, toolUse.id)]]

\* (error as Error).message of the value caught: an Error has its message,
\* another object or a primitive gives undefined, and null or undefined
\* have no properties: reading .message throws a TypeError.
HasProperties(value) == value \notin {"null", "undefined"}
MessageOf(value) == IF value = "Error" THEN "thrown" ELSE "undefined"

ToolError(s, toolUse, tag) ==
  [Emit(s, "error_tool") EXCEPT
     !.toolResults = Append(@, createToolResult(toolUse.id,
                                  <<"Tool execution error: ", tag>>, TRUE))]

\* includesImage: data is an object with includeImage === true and a string
\* under the key dataUrl.
IncludesImage(data) == data.t = "image"

\* The body of the try around tool.execute, and its catch.  An exception
\* thrown by the catch block itself is caught by the inner catch of the loop.
OnToolSettled(w, o) ==
  LET s == [w.s EXCEPT !.outcomes = Append(@, o)]
      toolUse == s.toolUses[s.toolIdx]
      s1 == IF o.kind = "throw"
            THEN ToolError(s, toolUse, MessageOf(o.value))
            ELSE LET a == Emit(s, "tool_result")
                     x == extractDiscoveries(toolUse.name, toolUse.input, o, a)
                     b == x.s
                     includesImage == IncludesImage(o.data)
                 IN IF x.threw THEN ToolError(b, toolUse, NotIterable)
                    ELSE IF includesImage
                    THEN IF DataUrlMatches(o.data.dataUrl)
                         THEN [b EXCEPT !.toolResults = Append(@,
                                 createToolResultWithImage(toolUse.id, <<"output">>,
                                     o.data.dataUrl, ~o.success))]
                         ELSE ToolError(b, toolUse, "Invalid image data URL format")
                    ELSE [b EXCEPT !.toolResults = Append(@,
                                 createToolResult(toolUse.id, <<"output">>, ~o.success))]
  IN IF o.kind = "throw" /\ ~HasProperties(o.value)
     THEN InnerCatch([w EXCEPT !.s = [s EXCEPT !.toolCrash = TRUE]],
                     MessageTypeError(o.value))
     ELSE ToolLoop([w EXCEPT !.s = [s1 EXCEPT !.toolIdx = @ + 1]])

\* ------------------------------------ executeLoop after a chat response
\* A variant that keeps the usage of the latest response only.
AddUsage_latest(tokenUsage, usage) ==
  [input |-> usage.input_tokens, output |-> usage.output_tokens]

\* state.tokenUsage.input += ...; state.tokenUsage.output += ...
AddUsage(tokenUsage, usage) ==
  [input |-> tokenUsage.input + usage.input_tokens,
   output |-> tokenUsage.output + usage.output_tokens]

\* A variant that keeps the count of errors across a successful call.
ResetErrors_kept(s) == s

\* "Reset error counter on success"
ResetErrors(s) == [s EXCEPT !.consecutiveErrors = 0]

OnChatSuccess(w, resp) ==
  LET s0 == [ResetErrors(w.s) EXCEPT
               !.tokenUsage = AddUsage(@, resp.usage),
               !.onlyToolUse = @ /\ resp.stop_reason = "tool_use",
               !.firstStop = IF @ = "none" THEN resp.stop_reason ELSE @,
               !.firstText = IF w.s.firstStop = "none" THEN resp.text ELSE @]
      s1 == IF resp.text # "" THEN Emit(s0, "thinking") ELSE s0
  IN IF resp.stop_reason = "end_turn"
     THEN LET s2 == Emit([s1 EXCEPT !.messages = Append(@, AssistantMessage(resp))],
                         "assistant_message")
              s3 == Emit([s2 EXCEPT !.status = "complete"], "status_complete")
              w1 == saveCheckpoint([w EXCEPT !.s = s3], s3.iteration)
          IN IF w1.threw THEN InnerCatch(w1, CheckpointError)
             ELSE [w1 EXCEPT !.s = [Emit(w1.s, "complete") EXCEPT !.pc = "done",
                               !.result = ResultOf(w1.s, TRUE, <<resp.text>>)]]
     ELSE IF resp.stop_reason = "tool_use"
     THEN ToolLoop([w EXCEPT !.s = [s1 EXCEPT
                      !.messages = Append(@, AssistantMessage(resp)),
                      !.toolUses = resp.toolUses, !.toolIdx = 1,
                      !.toolResults = <<>>, !.outcomes = <<>>,
                      !.executed = <<>>, !.turnMsg = 0]])
     ELSE LoopTop([w EXCEPT !.s = s1])

\* ------------------------------------------------ AnthropicClient.chat
\* chat throws: the error reaches the inner catch of the engine's loop.
ChatThrows(w, err) == InnerCatch([w EXCEPT !.s.chatStreak = @ + 1], err)

\* A variant whose for loop makes one pass more.
NextAttempt_extra(w) ==
  LET w1 == [w EXCEPT !.s.attempt = @ + 1] IN
  IF w1.s.attempt <= MAX_RETRIES THEN SendRequest(w1)
  ELSE ChatThrows(w1, w1.s.lastError)

\* The end of one pass of the for loop: attempt++ and either the next
\* request or, after MAX_RETRIES passes, throw lastError to the engine.
NextAttempt(w) ==
  LET w1 == [w EXCEPT !.s.attempt = @ + 1] IN
  IF w1.s.attempt < MAX_RETRIES THEN SendRequest(w1)
  ELSE ChatThrows(w1, w1.s.lastError)

\* A variant that records without emitting usage_update.
recordUsage_silent(w) == w

\* recordUsage: push the sample and emit usage_update.
recordUsage(w) ==
  IF w.rateLimiter
  THEN [w EXCEPT !.s = EmitRateLimitFor(@, "usage_update", 0, w.caller)]
  ELSE w

\* makeRequest has settled inside chat's try: o is the response or the
\* error thrown.
OnHttpSettled(w, o) ==
  IF o.kind = "ok"
  THEN OnChatSuccess(recordUsage([w EXCEPT !.s.failStreak = 0,
                                           !.s.chatStreak = 0,
                                           !.s.okCalls = @ + 1,
                                           !.s.usageSum =
                                              [input |-> @.input + o.resp.usage.input_tokens,
                                               output |-> @.output + o.resp.usage.output_tokens]]),
                  o.resp)
  ELSE LET e == o.error
           w1 == [w EXCEPT !.s.lastError = e, !.s.failStreak = @ + 1,
                           !.s.failures = @ + 1]
       IN IF e.anth /\ isRateLimited(e) /\ e.retryAfterMs # 0 /\ w.rateLimiter
          THEN \* rateLimiter.handleRateLimitError: emit waiting, then sleep
               [w1 EXCEPT !.s = [EmitRateLimit(@, "waiting", e.retryAfterMs) EXCEPT
                                   !.pc = "rlsleep",
                                   !.rlSleepMs = @ + e.retryAfterMs]]
          ELSE IF e.anth /\ isOverloaded(e)
          THEN [w1 EXCEPT !.s.pc = "csleep", !.s.backoffs = @ + 1]
          ELSE IF e.anth /\ e.status >= 400 /\ e.status < 500 /\ e.status # 429
          THEN ChatThrows(w1, e)
          ELSE IF w1.s.attempt < MAX_RETRIES - 1
          THEN [w1 EXCEPT !.s.pc = "csleep", !.s.backoffs = @ + 1]
          ELSE NextAttempt(w1)

\* A sleep inside chat is over: after a rate limit wait the limiter emits
\* resumed; then "continue".
OnClientWake(w) ==
  NextAttempt(IF w.s.pc = "rlsleep"
              THEN [w EXCEPT !.s = EmitRateLimit(@, "resumed", 0)] ELSE w)

\* A variant that counts the failed call as an iteration.
OnEngineWake_counted(w) == LoopTop(w)

\* The engine's back-off is over: iteration--, continue.
OnEngineWake(w) ==
  LoopTop([w EXCEPT !.s.iteration = @ - 1])

\* ---------------------------------------------------------- environment
\* response.usage: what the endpoint charges for an answer.
Usage == [input_tokens |-> 2, output_tokens |-> 1]
ToolTurnUsage == [input_tokens |-> 3, output_tokens |-> 2]
UsageOf(a) == IF a.stop_reason = "tool_use" THEN ToolTurnUsage ELSE Usage

SeqsUpTo(S, n) == UNION {[1..k -> S] : k \in 0..n}

NoData == [t |-> "none"]
FileA == [kind |-> "file", path |-> "a.csv", name |-> "a.csv"]
FileA2 == [kind |-> "file", path |-> "a.csv", name |-> "A.CSV"]
DirB == [kind |-> "directory", path |-> "b", name |-> "b"]
Entries(es) == [t |-> "entries", entries |-> es]
FileData(format, columns, content) ==
  [t |-> "file", format |-> format, columns |-> columns, content |-> content]
\* {includeImage: true, dataUrl}
ImageData(dataUrl) == [t |-> "image", dataUrl |-> dataUrl]
\* {includeImage: true, dataUrls: [...]}: what screenshot_presentation returns
Screenshots(dataUrls) == [t |-> "screenshots", dataUrls |-> dataUrls]

Returns(success, data) == [kind |-> "ret", success |-> success, data |-> data]
\* execute throws (or its promise rejects with) an Error, a string, or
\* nothing at all: `throw undefined`, `Promise.reject()`.
Throws == [kind |-> "throw", value |-> "Error"]
ThrowsString == [kind |-> "throw", value |-> "string"]
ThrowsUndefined == [kind |-> "throw", value |-> "undefined"]
ThrowsNull == [kind |-> "throw", value |-> "null"]

\* A tool request of the model together with what the tool then does.
Call(name, input, outcome) == [name |-> name, input |-> input, outcome |-> outcome]

ListingCalls ==
  {Call("list_directory", "", Throws),
   Call("list_directory", "", Returns(FALSE, Entries(<<FileA>>))),
   Call("list_directory", "", Returns(TRUE, Entries(<<FileA>>))),
   Call("list_directory", "", Returns(TRUE, Entries(<<FileA2, DirB, DirB>>))),
   Call("ghost", "", Throws)}

ReadingCalls ==
  {Call("read_file", "a.csv", Returns(TRUE, FileData("CSV", 2, "csv"))),
   Call("read_file", "a.csv", Returns(TRUE, FileData("none", 0, "lines"))),
   Call("read_file", "b", Returns(TRUE, FileData("none", 0, "lines"))),
   Call("read_file", "b", Returns(TRUE, FileData("none", 0, "json"))),
   Call("read_file", "b", Returns(FALSE, FileData("JSON", 0, "json")))}

ImagingCalls ==
  {Call("noop", "", Returns(TRUE, NoData)),
   Call("noop", "", Returns(TRUE, ImageData("data:image/png;base64,AAAA"))),
   Call("noop", "", Returns(FALSE, ImageData("data:image/png;base64,AAAA"))),
   Call("noop", "", Returns(TRUE, ImageData("screenshot.png"))),
   Call("noop", "", Returns(TRUE, ImageData("data:image/svg+xml;base64,AAAA"))),
   Call("noop", "", Returns(TRUE, Screenshots(<<"data:image/png;base64,AAAA">>))),
   Call("noop", "", Returns(TRUE, Entries(<<FileA>>))),
   Call("noop", "", Returns(FALSE, NoData)),
   Call("noop", "", ThrowsString),
   Call("noop", "", ThrowsUndefined)}

\* Tools that return or throw a value of another type than the engine
\* expects: a listing whose data is no array, a rejection with null.
MistypedCalls ==
  {Call("list_directory", "", Returns(TRUE, Entries(<<FileA>>))),
   Call("list_directory", "", Returns(TRUE, FileData("CSV", 2, "csv"))),
   Call("list_directory", "", Returns(FALSE, ImageData("data:image/png;base64,AAAA"))),
   Call("noop", "", ThrowsNull)}

BasicCalls ==
  {Call("noop", "", Returns(TRUE, NoData)), Call("noop", "", Throws)}

HttpErrors ==
  {AnthropicError(429, 2000), AnthropicError(429, 0), AnthropicError(529, 0),
   AnthropicError(500, 0), AnthropicError(401, 0), NetworkError}

EndTurn(text) == [stop_reason |-> "end_turn", text |-> text]
ToolUse(text) == [stop_reason |-> "tool_use", text |-> text]
MaxTokens(text) == [stop_reason |-> "max_tokens", text |-> text]

\* Families of collaborators.  A profile gives the answers and the errors
\* of the endpoint, how many requests it may fail in one run (-1: any
\* number), the tool calls a tool_use answer may request, and how many of
\* them at most.
Profile(name, answers, errors, maxFailures, calls, maxTools) ==
  [name |-> name, answers |-> answers, errors |-> errors,
   maxFailures |-> maxFailures, calls |-> calls, maxTools |-> maxTools]

ToolProfiles ==
  {Profile("listing", {EndTurn("done"), ToolUse("")}, {}, 0, ListingCalls, MaxTools),
   Profile("reading", {EndTurn("done"), ToolUse("")}, {}, 0, ReadingCalls, MaxTools),
   Profile("imaging", {EndTurn("done"), ToolUse("")}, {}, 0, ImagingCalls, MaxTools)}

\* A directory listed again after an interruption.
RelistingCalls ==
  {Call("list_directory", "", Returns(TRUE, Entries(<<FileA>>))),
   Call("list_directory", "", Returns(TRUE, Entries(<<FileA2, DirB, DirB>>)))}

RelistingProfile ==
  Profile("relisting", {EndTurn("done"), ToolUse("")}, {}, 0, RelistingCalls, 1)

BasicAnswers == {EndTurn("done"), EndTurn(""), ToolUse("thinking"), MaxTokens("cut")}

FewAnswers == {EndTurn("done"), ToolUse("thinking")}

BasicProfile == Profile("basic", BasicAnswers, {}, 0, BasicCalls, 1)

FailingProfiles ==
  {Profile("failing", FewAnswers, {e}, -1, BasicCalls, 1) : e \in HttpErrors}
  \cup {Profile("flaky", FewAnswers, HttpErrors,
                MaxMixedFailures, BasicCalls, 1)}

\* A key revoked while the endpoint is already failing.
DeniedProfile ==
  Profile("denied", {EndTurn("done")},
          {AnthropicError(500, 0), AnthropicError(401, 0)},
          MAX_RETRIES + 1, BasicCalls, 1)

MistypedProfile ==
  Profile("mistyped", {EndTurn("done"), ToolUse("")}, {}, 0, MistypedCalls, 1)

\* A client shared with a caller of chatStream, and an engine whose user
\* subscribes and unsubscribes listeners while it runs.
StreamingProfile == Profile("streaming", FewAnswers, {}, 0, BasicCalls, 1)
SubscribingProfile == Profile("subscribing", FewAnswers, {}, 0, BasicCalls, 1)

\* The transport numbers the tool_use blocks of a response: ids are unique
\* in a conversation.
Response(a, plan, n) ==
  [stop_reason |-> a.stop_reason, text |-> a.text, usage |-> UsageOf(a),
   toolUses |-> [i \in 1..Len(plan) |->
                   [type |-> "tool_use", id |-> <<"toolu", n, i>>,
                    name |-> plan[i].name, input |-> plan[i].input]]]

Requests(calls) == {[name |-> c.name, input |-> c.input] : c \in calls}

\* The tool requests an answer may carry: up to the profile's maxTools in
\* the answer to the first transport call of a run, at most one later.
Plans(a, first) ==
  IF a.stop_reason = "tool_use"
  THEN SeqsUpTo(Requests(env.profile.calls),
                IF first THEN env.profile.maxTools ELSE 1)
  ELSE {<<>>}

\* The answers the endpoint may give to the request of run r.
Answers(r) ==
  UNION {{[kind |-> "ok", resp |-> Response(a, plan, Len(run[r].messages) + 1)] :
            plan \in Plans(a, run[r].chatCalls = 1)} : a \in env.profile.answers}

Failures(r) ==
  IF env.profile.maxFailures = -1 \/ run[r].failures < env.profile.maxFailures
  THEN {[kind |-> "err", error |-> e] : e \in env.profile.errors}
  ELSE {}

\* ------------------------------------------------------------- actions
Active(r) == run[r].pc \in {"http", "rlsleep", "csleep", "esleep", "tool"}

\* run[r].log and run[r].heard keep what the engine emitted since run r
\* began.  An event the engine relays for another user of its client is
\* kept by the record of a run in progress; between runs, and before the
\* first, by the record of the first slot, where the next run begins.
Hears(r) == Active(r) \/ (r = 1 /\ \A q \in Runs : ~Active(q))

World(r) ==
  [s |-> [run[r] EXCEPT !.fresh = FALSE], stored |-> stored, cpCalls |-> cpCalls,
   threw |-> FALSE, aborted |-> abortCtl.aborted, rateLimiter |-> rateLimiter,
   caller |-> ForChat]

Commit(r, w) ==
  /\ run' = [run EXCEPT ![r] = w.s]
  /\ stored' = w.stored
  /\ cpCalls' = w.cpCalls

\* The caller may start a run in slot r: the lowest slot not in use; a
\* caller that awaits its runs starts one only when none is in flight.
MayStart(r) ==
  /\ started < env.runs
  /\ ~Active(r)
  /\ \A q \in Runs : q < r => Active(q)
  /\ env.concurrent \/ \A q \in Runs : ~Active(q)

\* A variant that keeps the signal of the controller it replaces.
NewAbortController_kept == [exists |-> TRUE, aborted |-> abortCtl.aborted]

\* this.abortController = new AbortController()
NewAbortController == [exists |-> TRUE, aborted |-> FALSE]

\* executeLoop's first stretch: a new AbortController, status_change
\* running, the user message event, and the loop up to the first await.
\* staleStop notes that stop() was called on the controller replaced here.
Enter(r, s, initialPrompt) ==
  LET s1 == Emit(s, "status_running")
      s2 == IF initialPrompt # "" THEN Emit(s1, "user_message") ELSE s1
      ctl == NewAbortController
      w == [s |-> [s2 EXCEPT !.fresh = TRUE, !.staleStop = abortCtl.aborted],
            stored |-> stored, cpCalls |-> cpCalls,
            threw |-> FALSE, aborted |-> ctl.aborted, rateLimiter |-> rateLimiter,
            caller |-> ForChat]
  IN /\ abortCtl' = ctl
     /\ started' = started + 1
     /\ Commit(r, LoopTop(w))
     /\ UNCHANGED <<libVars, proxyVars, env, subscriptions, rateLimiter>>

\* resume: "Emit existing discoveries so UI shows them".
RECURSIVE EmitDiscoveries(_, _)
EmitDiscoveries(s, discoveries) ==
  IF discoveries = <<>> THEN s
  ELSE EmitDiscoveries(EmitEvent(s, "discovery", Head(discoveries).id),
                       Tail(discoveries))

\* run(initialPrompt)
Run(r, initialPrompt) ==
  /\ MayStart(r)
  /\ Enter(r, [IdleRun EXCEPT !.kind = "run", !.status = "running",
                 !.messages = <<UserText(initialPrompt)>>], initialPrompt)

\* A variant of resume that starts counting iterations afresh.
Rehydrate_fromZero(checkpoint) ==
  [IdleRun EXCEPT !.kind = "resume", !.seed = checkpoint,
     !.status = "running", !.messages = checkpoint.messages,
     !.discoveries = checkpoint.discoveries,
     !.tokenUsage = checkpoint.tokenUsage,
     !.priorCalls = checkpoint.done, !.priorToolOnly = checkpoint.toolOnly]

\* resume: the execution state built from the checkpoint, and the
\* iteration number handed to executeLoop.
Rehydrate(checkpoint) ==
  [IdleRun EXCEPT !.kind = "resume", !.seed = checkpoint,
     !.status = "running", !.messages = checkpoint.messages,
     !.discoveries = checkpoint.discoveries,
     !.tokenUsage = checkpoint.tokenUsage,
     !.iteration = checkpoint.iteration,
     !.priorCalls = checkpoint.done, !.priorToolOnly = checkpoint.toolOnly]

\* resume(checkpoint), with the checkpoint the callback persisted last
Resume(r) ==
  /\ MayStart(r)
  /\ stored # NoCheckpoint
  /\ LET s0 == Rehydrate(stored)
         s1 == EmitDiscoveries(Emit(s0, "resuming"), s0.discoveries)
     IN Enter(r, s1, "")

\* stop(): this.abortController?.abort()
Stop ==
  /\ abortCtl' = IF abortCtl.exists THEN [abortCtl EXCEPT !.aborted = TRUE]
                 ELSE abortCtl
  /\ run' = [r \in Runs |->
               IF Active(r)
               THEN [run[r] EXCEPT !.stopReq = TRUE, !.immStop = @ \/ run[r].fresh]
               ELSE run[r]]
  /\ UNCHANGED <<libVars, proxyVars, env, subscriptions, stored, cpCalls, rateLimiter, started>>

\* The endpoint answers the request in flight.
HttpRespond(r) ==
  /\ run[r].pc = "http"
  /\ \E o \in Answers(r) \cup Failures(r) :
        LET w == World(r)
            w1 == [w EXCEPT !.s.onlyOverload =
                      @ /\ o.kind = "err" /\ o.error.status = 529]
        IN Commit(r, OnHttpSettled(w1, o))
  /\ UNCHANGED <<libVars, proxyVars, env, subscriptions, abortCtl, rateLimiter, started>>

\* A timer of the client fires.
ClientWake(r) ==
  /\ run[r].pc \in {"rlsleep", "csleep"}
  /\ Commit(r, OnClientWake(World(r)))
  /\ UNCHANGED <<libVars, proxyVars, env, subscriptions, abortCtl, rateLimiter, started>>

\* The engine's back-off timer fires.
EngineWake(r) ==
  /\ run[r].pc = "esleep"
  /\ Commit(r, OnEngineWake(World(r)))
  /\ UNCHANGED <<libVars, proxyVars, env, subscriptions, abortCtl, rateLimiter, started>>

\* The tool's execute resolves or rejects.
ToolSettle(r) ==
  /\ run[r].pc = "tool"
  /\ \E c \in env.profile.calls :
        /\ c.name = run[r].toolUses[run[r].toolIdx].name
        /\ c.input = run[r].toolUses[run[r].toolIdx].input
        /\ Commit(r, OnToolSettled(World(r), c.outcome))
  /\ UNCHANGED <<libVars, proxyVars, env, subscriptions, abortCtl, rateLimiter, started>>

\* The totals a stream has counted when it ends: nothing (no event
\* carried a usage) or some tokens.
StreamTotals == {[input |-> 0, output |-> 0], [input |-> 3, output |-> 1]}

\* chatStream on the engine's client, called by another user of the
\* client: the stream ends ("[DONE]" or the end of the body) and the usage
\* counted is recorded, which emits usage_update; the engine relays it as
\* a rate_limit event, whether or not a run is in progress.  Record r
\* keeps the event.
ChatStreamEnd(r, totals) ==
  /\ Hears(r)
  /\ run[r].streamed < env.streams
  /\ LET s == [run[r] EXCEPT !.streamed = @ + 1]
         w == [World(r) EXCEPT !.s = [s EXCEPT !.fresh = run[r].fresh],
                               !.caller = ForChatStream]
     IN run' = [run EXCEPT ![r] =
                  IF totals.input # 0 \/ totals.output # 0
                  THEN recordUsage(w).s ELSE s]
  /\ UNCHANGED <<libVars, proxyVars, env, subscriptions, abortCtl, stored, cpCalls,
                 rateLimiter, started>>

\* on(listener): push the listener; the closure returned unsubscribes it.
On(i) ==
  /\ subscriptions.changes < env.subscriptionChanges
  /\ subscriptions' = [subscriptions EXCEPT
                         !.listeners = Append(@, i),
                         !.touched = @ \cup {i}, !.changes = @ + 1]
  /\ UNCHANGED <<libVars, proxyVars, env, run, abortCtl, stored, cpCalls,
                 rateLimiter, started>>

\* The closure on(listener) returned is called:
\* this.listeners = this.listeners.filter((l) => l !== listener)
Unsubscribe(i) ==
  /\ subscriptions.changes < env.subscriptionChanges
  /\ \E k \in 1..Len(subscriptions.listeners) : subscriptions.listeners[k] = i
  /\ subscriptions' = [subscriptions EXCEPT
                         !.listeners = SelectSeq(@, LAMBDA l : l # i),
                         !.touched = @ \cup {i}, !.changes = @ + 1]
  /\ UNCHANGED <<libVars, proxyVars, env, run, abortCtl, stored, cpCalls,
                 rateLimiter, started>>

\* ------------------------------------------------------ the quota proxy
\* functions/api/proxy.ts: a worker that forwards POSTs to Anthropic under
\* the server's key until Anthropic reports the budget exhausted.
Posts == 1..MaxPosts

NoReply == [status |-> 0, type |-> "none"]
IdlePost ==
  [pc |-> "idle", upstream |-> NoReply, reply |-> NoReply,
   flagAtSend |-> FALSE, sentUpstream |-> FALSE, flagAtReply |-> FALSE]

\* new Response(JSON.stringify(...), {status}): the status and error.type
Reply(status, type) == [status |-> status, type |-> type]
BudgetExhaustedReply == Reply(402, "budget_exhausted")
ProxyErrorReply == Reply(500, "proxy_error")

\* The answer leaves the handler; the flag's value at that moment is kept.
Respond(post, reply) ==
  [post EXCEPT !.pc = "done", !.reply = reply, !.flagAtReply = budgetExhausted]

\* What Anthropic answers: ok with a JSON or an event-stream body, or an
\* error status with the error.type of its body ("none": no JSON body).
UpstreamAnswers ==
  {Reply(200, "json"), Reply(200, "stream"),
   Reply(429, "rate_limit_error"), Reply(402, "billing_error"),
   Reply(529, "overloaded_error"), Reply(400, "invalid_request_error"),
   Reply(500, "none")}

\* The "billing/rate limit" condition of onRequestPost.
isBudgetError(status, type) ==
  \/ status = 429
  \/ status = 402
  \/ type \in {"insufficient_quota", "rate_limit_error", "overloaded_error"}

\* POST /api/proxy up to its first await: the flag is checked once, here.
PostArrive(p) ==
  /\ posts[p].pc = "idle"
  /\ \A q \in Posts : q < p => posts[q].pc # "idle"
  /\ posts' = [posts EXCEPT ![p] =
                 IF budgetExhausted THEN Respond(@, BudgetExhaustedReply)
                 ELSE [@ EXCEPT !.pc = "body"]]
  /\ UNCHANGED <<libVars, engineVars, budgetExhausted, got, worker>>

\* await request.json() settles: the request is sent on to Anthropic, or
\* the body was no JSON and the catch block answers.
PostBody(p) ==
  /\ posts[p].pc = "body"
  /\ \E valid \in BOOLEAN :
        posts' = [posts EXCEPT ![p] =
                    IF valid
                    THEN [@ EXCEPT !.pc = "fetch", !.sentUpstream = TRUE,
                                   !.flagAtSend = budgetExhausted]
                    ELSE Respond(@, ProxyErrorReply)]
  /\ UNCHANGED <<libVars, engineVars, budgetExhausted, got, worker>>

\* await fetch(...) settles.
PostFetch(p) ==
  /\ posts[p].pc = "fetch"
  /\ \/ posts' = [posts EXCEPT ![p] = Respond(@, ProxyErrorReply)]
     \/ \E a \in UpstreamAnswers :
          posts' = [posts EXCEPT ![p] =
                      IF a.type = "stream" THEN Respond(@, a)
                      ELSE [@ EXCEPT !.pc = "json", !.upstream = a]]
  /\ UNCHANGED <<libVars, engineVars, budgetExhausted, got, worker>>

\* await anthropicResponse.json() settles.  In the error branch (a failed
\* json() gives {}) the handler sets the flag and answers 402, or forwards
\* the error; the flag is set before the answer is built.  In the ok branch
\* it forwards the body, or json() threw and the catch block answers.
PostJson(p) ==
  /\ posts[p].pc = "json"
  /\ LET a == posts[p].upstream
         exhausted == a.status # 200 /\ isBudgetError(a.status, a.type)
     IN /\ budgetExhausted' = (budgetExhausted \/ exhausted)
        /\ worker' = [worker EXCEPT !.flagged = @ \/ exhausted]
        /\ \E parsed \in BOOLEAN :
             /\ a.status # 200 => parsed
             /\ posts' = [posts EXCEPT ![p] =
                  [@ EXCEPT !.pc = "done",
                            !.reply = IF exhausted THEN BudgetExhaustedReply
                                      ELSE IF parsed THEN a
                                      ELSE ProxyErrorReply,
                            !.flagAtReply = budgetExhausted']]
  /\ UNCHANGED <<libVars, engineVars, got>>

\* GET /api/proxy
onRequestGet ==
  /\ got' = [status |-> 200, available |-> ~budgetExhausted,
             flagged |-> worker.flagged]
  /\ UNCHANGED <<libVars, engineVars, budgetExhausted, posts, worker>>

\* The worker restarts while it handles no request: the module is loaded
\* anew.
Restart ==
  /\ worker.restarts < MaxRestarts
  /\ \A p \in Posts : posts[p].pc \in {"idle", "done"}
  /\ budgetExhausted' = FALSE
  /\ posts' = [p \in Posts |-> IdlePost]
  /\ worker' = [restarts |-> worker.restarts + 1, flagged |-> FALSE]
  /\ UNCHANGED <<libVars, engineVars, got>>

NoGet == [status |-> 0, available |-> TRUE, flagged |-> FALSE]

InitProxy ==
  /\ budgetExhausted = FALSE
  /\ posts = [p \in Posts |-> IdlePost]
  /\ got = NoGet
  /\ worker = [restarts |-> 0, flagged |-> FALSE]

\* ------------------------------------- AnthropicClient.validateApiKey
Validations == 1..MaxValidations

\* limiter is the local of the call; before keeps what this.rateLimiter
\* was when the call was made; failures counts its failed requests.
IdleValidation ==
  [pc |-> "idle", limiter |-> FALSE, before |-> FALSE, attempt |-> 0,
   lastError |-> NoError, result |-> "none", requests |-> 0, failures |-> 0]

IdleValidations == [c \in Validations |-> IdleValidation]

\* The chat call of validation c is in progress.
Validating(c) == validation[c].pc \in {"http", "rlsleep", "csleep"}

\* The validation requests that failed so far, of the calls 1..n.
RECURSIVE ValidationFailures(_)
ValidationFailures(n) ==
  IF n = 0 THEN 0 ELSE validation[n].failures + ValidationFailures(n - 1)

\* What the endpoint may answer to the validation request.
ValidationErrors ==
  {AnthropicError(401, 0), AnthropicError(403, 0), AnthropicError(429, 2000),
   AnthropicError(429, 0), AnthropicError(529, 0), AnthropicError(500, 0),
   NetworkError}

\* The catch block of chat for the error e of the given attempt: wait for
\* the rate limiter, back off, throw, or go on to the next attempt.
chatCatch(attempt, hasLimiter, e) ==
  IF e.anth /\ isRateLimited(e) /\ e.retryAfterMs # 0 /\ hasLimiter THEN "rlsleep"
  ELSE IF e.anth /\ isOverloaded(e) THEN "csleep"
  ELSE IF e.anth /\ e.status >= 400 /\ e.status < 500 /\ e.status # 429
  THEN "throw"
  ELSE IF attempt < MAX_RETRIES - 1 THEN "csleep"
  ELSE "continue"

\* The call has returned or thrown: its locals are gone.
Returned(v, result) ==
  [v EXCEPT !.pc = "done", !.result = result, !.limiter = FALSE,
            !.attempt = 0, !.lastError = NoError]

\* The catch block of validateApiKey: false on 401, otherwise rethrow.
\* this.rateLimiter is left as it is.
ValidateCatch(v, error) ==
  Returned(v, IF error.anth /\ error.status = 401 THEN "false" ELSE "threw")

\* The for loop of the chat call inside validateApiKey goes round.
ValidateContinue(v) ==
  LET v1 == [v EXCEPT !.attempt = @ + 1] IN
  IF v1.attempt < MAX_RETRIES
  THEN [v1 EXCEPT !.pc = "http", !.requests = @ + 1]
  ELSE ValidateCatch(v1, v1.lastError)

\* The limiter acts for the chat call of a validation: the engine,
\* subscribed to it since its construction, relays the event to its
\* listeners.
ForValidateApiKey == <<"validateApiKey">>
Relay(e, waitMs) ==
  \E r \in Runs :
    /\ Hears(r)
    /\ run' = [run EXCEPT ![r] = EmitRateLimitFor(@, e, waitMs, ForValidateApiKey)]

\* validateApiKey is called: it keeps the limiter in a local, sets
\* this.rateLimiter to null and calls chat, which sends its first request.
ValidateApiKey(c) ==
  /\ validation[c].pc = "idle"
  /\ \A d \in Validations : d < c => validation[d].pc # "idle"
  /\ validation' = [validation EXCEPT ![c] =
                      [IdleValidation EXCEPT !.pc = "http",
                         !.limiter = rateLimiter, !.before = rateLimiter,
                         !.requests = 1]]
  /\ rateLimiter' = FALSE
  /\ UNCHANGED <<utilVars, proxyVars, env, subscriptions, run, abortCtl, stored, cpCalls, started>>

\* The endpoint answers the request of validation c.  On success chat
\* records the usage if this.rateLimiter is set by now and returns; the
\* limiter kept in the local is put back and the result is true.  On an
\* error chat's catch block reads this.rateLimiter as it is by now.
ValidateRespond(c) ==
  /\ validation[c].pc = "http"
  /\ \/ /\ validation' = [validation EXCEPT ![c] = Returned(@, "true")]
        /\ rateLimiter' = validation[c].limiter
        /\ IF rateLimiter THEN Relay("usage_update", 0) ELSE UNCHANGED run
     \/ /\ ValidationFailures(MaxValidations) < MaxValidationFailures
        /\ \E e \in ValidationErrors :
             LET v == [validation[c] EXCEPT !.lastError = e, !.failures = @ + 1]
                 step == chatCatch(v.attempt, rateLimiter, e)
             IN /\ validation' = [validation EXCEPT ![c] =
                     IF step = "throw" THEN ValidateCatch(v, e)
                     ELSE IF step = "continue" THEN ValidateContinue(v)
                     ELSE [v EXCEPT !.pc = step]]
                /\ IF step = "rlsleep" THEN Relay("waiting", e.retryAfterMs)
                   ELSE UNCHANGED run
        /\ UNCHANGED rateLimiter
  /\ UNCHANGED <<utilVars, proxyVars, env, subscriptions, abortCtl, stored, cpCalls, started>>

\* A sleep of the chat call inside validation c is over: after a wait
\* under the limiter the limiter emits resumed; then continue.
ValidateWake(c) ==
  /\ validation[c].pc \in {"rlsleep", "csleep"}
  /\ validation' = [validation EXCEPT ![c] = ValidateContinue(@)]
  /\ IF validation[c].pc = "rlsleep" THEN Relay("resumed", 0)
     ELSE UNCHANGED run
  /\ UNCHANGED <<utilVars, proxyVars, env, subscriptions, abortCtl, stored, cpCalls,
                 rateLimiter, started>>

\* ---------------------------------------------------------- RateLimiter
windowMs == 60000
MaxSamples == 2
MaxTicks == 2

\* How far the clock (Date.now()) may advance in one step, in ms.
Ticks == {1, windowMs - 1, windowMs}

\* An optional number: <<>> when the argument is left out.
Given(n) == <<n>>
Omitted == <<>>
\* x || 0
OrZero(x) == IF x = Omitted THEN 0 ELSE x[1]

\* The arguments of recordUsage.
Usages ==
  {[inputTokens |-> 1, outputTokens |-> 2,
    cacheCreationTokens |-> Omitted, cacheReadTokens |-> Omitted],
   [inputTokens |-> 4, outputTokens |-> 8,
    cacheCreationTokens |-> Given(16), cacheReadTokens |-> Given(32)],
   [inputTokens |-> 0, outputTokens |-> 0,
    cacheCreationTokens |-> Given(0), cacheReadTokens |-> Given(64)]}

Stamped(u, now) ==
  [inputTokens |-> u.inputTokens, outputTokens |-> u.outputTokens,
   cacheCreationTokens |-> u.cacheCreationTokens,
   cacheReadTokens |-> u.cacheReadTokens, timestamp |-> now]

NoReturn == [fn |-> "none", value |-> 0, at |-> 0, samples |-> 0]
NoUsageEvent == [currentUsage |-> 0, at |-> 0, samples |-> 0]

\* recorded (every sample ever recorded), ret (the last return value of
\* a getter, when it was called and how many samples had been recorded)
\* and event (the last usage_update) are kept for the properties.
IdleLimiter ==
  [usageHistory |-> <<>>, now |-> 0, ticks |-> 0, sleeping |-> FALSE,
   recorded |-> <<>>, ret |-> NoReturn, event |-> NoUsageEvent]

\* A variant of the reducer of getCurrentUsage that counts cache reads.
UsageCost_withReads(u) ==
  u.inputTokens + u.outputTokens + OrZero(u.cacheCreationTokens)
    + OrZero(u.cacheReadTokens)

\* The reducer of getCurrentUsage.
UsageCost(u) == u.inputTokens + u.outputTokens + OrZero(u.cacheCreationTokens)

\* The reducer of getCachedTokensRead.
UsageReads(u) == OrZero(u.cacheReadTokens)

\* usageHistory.reduce((sum, u) => sum + u.inputTokens + ..., 0)
RECURSIVE ReduceUsage(_, _)
ReduceUsage(history, sum) ==
  IF history = <<>> THEN sum
  ELSE ReduceUsage(Tail(history), sum + UsageCost(Head(history)))

\* usageHistory.reduce((sum, u) => sum + (u.cacheReadTokens || 0), 0)
RECURSIVE ReduceReads(_, _)
ReduceReads(history, sum) ==
  IF history = <<>> THEN sum
  ELSE ReduceReads(Tail(history), sum + UsageReads(Head(history)))

\* A variant that never drops a sample.
pruneOldUsage_never(history, now) == history

\* pruneOldUsage: keep the entries with timestamp > Date.now() - windowMs.
pruneOldUsage(history, now) ==
  LET cutoff == now - windowMs
  IN SelectSeq(history, LAMBDA u : u.timestamp > cutoff)

\* The clock advances.
Tick(d) ==
  /\ limiter.ticks < MaxTicks
  /\ limiter' = [limiter EXCEPT !.now = @ + d, !.ticks = @ + 1]
  /\ UNCHANGED <<engineVars, proxyVars, validation, session, edit, tracking,
                 logger>>

\* getCurrentUsage()
getCurrentUsage ==
  /\ LET history == pruneOldUsage(limiter.usageHistory, limiter.now)
     IN limiter' = [limiter EXCEPT !.usageHistory = history,
                      !.ret = [fn |-> "getCurrentUsage",
                               value |-> ReduceUsage(history, 0),
                               at |-> limiter.now,
                               samples |-> Len(limiter.recorded)]]
  /\ UNCHANGED <<engineVars, proxyVars, validation, session, edit, tracking,
                 logger>>

\* getCachedTokensRead()
getCachedTokensRead ==
  /\ LET history == pruneOldUsage(limiter.usageHistory, limiter.now)
     IN limiter' = [limiter EXCEPT !.usageHistory = history,
                      !.ret = [fn |-> "getCachedTokensRead",
                               value |-> ReduceReads(history, 0),
                               at |-> limiter.now,
                               samples |-> Len(limiter.recorded)]]
  /\ UNCHANGED <<engineVars, proxyVars, validation, session, edit, tracking,
                 logger>>

\* recordUsage(...): push the sample, then emit usage_update with
\* getCurrentUsage(), which prunes.  It returns without awaiting anything,
\* also while handleRateLimitError sleeps.
RecordUsage(u) ==
  /\ Len(limiter.recorded) < MaxSamples
  /\ LET sample == Stamped(u, limiter.now)
         history == pruneOldUsage(Append(limiter.usageHistory, sample),
                                  limiter.now)
     IN limiter' = [limiter EXCEPT !.usageHistory = history,
                      !.recorded = Append(@, sample),
                      !.event = [currentUsage |-> ReduceUsage(history, 0),
                                 at |-> limiter.now,
                                 samples |-> Len(limiter.recorded) + 1]]
  /\ UNCHANGED <<engineVars, proxyVars, validation, session, edit, tracking,
                 logger>>

\* handleRateLimitError(retryAfterMs) up to its await: the waiting event
\* carries getCurrentUsage(), then the limiter sleeps.
HandleRateLimitError ==
  /\ ~limiter.sleeping
  /\ limiter' = [limiter EXCEPT
                   !.usageHistory = pruneOldUsage(@, limiter.now),
                   !.sleeping = TRUE]
  /\ UNCHANGED <<engineVars, proxyVars, validation, session, edit, tracking,
                 logger>>

\* The sleep of handleRateLimitError is over: resumed is emitted.
LimiterWake ==
  /\ limiter.sleeping
  /\ limiter' = [limiter EXCEPT !.sleeping = FALSE]
  /\ UNCHANGED <<engineVars, proxyVars, validation, session, edit, tracking,
                 logger>>
\* ------------------------------------------- saveIterationCheckpoint
MAX_CHECKPOINTS == 50
MaxSaves == 3

\* An IterationCheckpoint: its iteration and, standing for the rest of its
\* content, the timestamp the caller gave it (here the number of the save).
Checkpoint(iteration, timestamp) ==
  [iteration |-> iteration, timestamp |-> timestamp]

\* localStorage has no item under the session's key.
NoItem == [checkpoints |-> <<>>, currentIteration |-> -1]

\* JSON.stringify / JSON.parse of a SessionCheckpoints value: numbers and
\* arrays of plain objects come back as they were.
Stringify(sc) ==
  [json |-> [i \in 1..Len(sc.checkpoints) |->
               <<sc.checkpoints[i].iteration, sc.checkpoints[i].timestamp>>],
   cur |-> sc.currentIteration]
Parse(item) ==
  [checkpoints |-> [i \in 1..Len(item.json) |->
                      Checkpoint(item.json[i][1], item.json[i][2])],
   currentIteration |-> item.cur]

\* The item after the iterations 1..n were saved once each, in order.
StoredAfter(n) ==
  IF n = 0 THEN NoItem
  ELSE Stringify([checkpoints |-> [i \in 1..n |-> Checkpoint(i, 0)],
                  currentIteration |-> n])

\* item is what localStorage holds under the session's key; saves (the
\* calls made: iteration, timestamp, whether setItem succeeded), before
\* (the iterations stored at first) and removals (the calls of
\* deleteCheckpoint and clearSessionCheckpoints) are kept for the
\* properties.
SessionOf(item, n) ==
  [item |-> item, saves |-> <<>>, before |-> n, removals |-> 0]
IdleSession == SessionOf(NoItem, 0)

\* The calls made on the store so far; MaxSaves bounds them.
StoreCalls(sn) == Len(sn.saves) + sn.removals

\* The sessions a sequence of saves starts from.
StoredSessions ==
  {SessionOf(StoredAfter(n), n) :
     n \in {0, MAX_CHECKPOINTS - 1, MAX_CHECKPOINTS}}

\* The iterations a save is made for.
SaveIterations ==
  {1, MAX_CHECKPOINTS, MAX_CHECKPOINTS + 1, MAX_CHECKPOINTS + 2}

\* loadSessionCheckpoints
loadSessionCheckpoints(item) == IF item = NoItem THEN NoItem ELSE Parse(item)

\* checkpoints.sort((a, b) => a.iteration - b.iteration): a stable sort;
\* an entry goes to the place after those that come before it.
SortByIteration(cps) ==
  LET n == Len(cps)
      place == [i \in 1..n |->
                  1 + Cardinality({j \in 1..n :
                        \/ cps[j].iteration < cps[i].iteration
                        \/ (cps[j].iteration = cps[i].iteration /\ j < i)})]
  IN [k \in 1..n |-> cps[CHOOSE i \in 1..n : place[i] = k]]

\* A variant that keeps the first MAX_CHECKPOINTS entries.
KeepLast_first(cps) ==
  IF Len(cps) > MAX_CHECKPOINTS THEN SubSeq(cps, 1, MAX_CHECKPOINTS) ELSE cps

\* checkpoints.slice(-MAX_CHECKPOINTS) when there are more
KeepLast(cps) ==
  IF Len(cps) > MAX_CHECKPOINTS
  THEN SubSeq(cps, Len(cps) - MAX_CHECKPOINTS + 1, Len(cps))
  ELSE cps

\* The value saveIterationCheckpoint hands to localStorage.setItem.
Saved(existing, checkpoint) ==
  LET others == SelectSeq(existing.checkpoints,
                          LAMBDA c : c.iteration # checkpoint.iteration)
  IN [checkpoints |-> KeepLast(SortByIteration(Append(others, checkpoint))),
      currentIteration |-> checkpoint.iteration]

\* saveIterationCheckpoint(sessionId, checkpoint): setItem stores the new
\* value or throws (the quota is exceeded), which is caught and logged.
saveIterationCheckpoint(iteration, stored_) ==
  /\ StoreCalls(session) < MaxSaves
  /\ LET checkpoint == Checkpoint(iteration, Len(session.saves) + 1)
         existing == loadSessionCheckpoints(session.item)
     IN session' = [session EXCEPT
                      !.item = IF stored_ THEN Stringify(Saved(existing, checkpoint))
                               ELSE @,
                      !.saves = Append(@, [iteration |-> iteration,
                                           timestamp |-> checkpoint.timestamp,
                                           stored |-> stored_])]
  /\ UNCHANGED <<engineVars, proxyVars, validation, limiter, edit, tracking,
                 logger>>

\* The iterations a checkpoint is deleted for.
DeleteIterations == {1, MAX_CHECKPOINTS + 1}

\* The value deleteCheckpoint hands to localStorage.setItem: the session
\* without the checkpoint of the iteration, currentIteration as it was.
Deleted(existing, iteration) ==
  [existing EXCEPT !.checkpoints =
     SelectSeq(@, LAMBDA c : c.iteration # iteration)]

\* deleteCheckpoint(sessionId, iteration): nothing without a stored
\* session; setItem stores the new value or throws, which is caught and
\* logged.
deleteCheckpoint(iteration, stored_) ==
  /\ StoreCalls(session) < MaxSaves
  /\ LET existing == loadSessionCheckpoints(session.item)
     IN session' = [session EXCEPT
                      !.item = IF session.item # NoItem /\ stored_
                               THEN Stringify(Deleted(existing, iteration))
                               ELSE @,
                      !.removals = @ + 1]
  /\ UNCHANGED <<engineVars, proxyVars, validation, limiter, edit, tracking,
                 logger>>

\* clearSessionCheckpoints(sessionId): localStorage.removeItem(key)
clearSessionCheckpoints ==
  /\ StoreCalls(session) < MaxSaves
  /\ session' = [session EXCEPT !.item = NoItem, !.removals = @ + 1]
  /\ UNCHANGED <<engineVars, proxyVars, validation, limiter, edit, tracking,
                 logger>>

\* ------------------------------------------------- messageValidation
MaxMessages == 3

\* A content block as the validator sees it: its type ("" when it has
\* none), id and tool_use_id ("" when missing), and whether the other
\* properties its type requires are there.
Block(type, id, tool_use_id, rest) ==
  [type |-> type, id |-> id, tool_use_id |-> tool_use_id, rest |-> rest]
TextBlock == Block("text", "", "", TRUE)
ToolUseBlock(id) == Block("tool_use", id, "", TRUE)
ToolResultBlock(id) == Block("tool_result", "", id, TRUE)
UntypedBlock == Block("", "", "", TRUE)
FutureBlock == Block("document", "", "", TRUE)

\* Message content: a string or an array of blocks.
Str(text) == [t |-> "string", text |-> text, blocks |-> <<>>]
Arr(blocks) == [t |-> "array", text |-> "", blocks |-> blocks]
Msg(role, content) == [role |-> role, content |-> content]

\* The messages of the lists that are edited.
ListMessages ==
  {Msg("user", Str("go")),
   Msg("assistant", Arr(<<TextBlock, ToolUseBlock("t1")>>)),
   Msg("user", Arr(<<ToolResultBlock("t1")>>)),
   Msg("assistant", Arr(<<UntypedBlock>>))}

\* The messages an edit puts in.
NewMessages ==
  ListMessages \cup
  {Msg("user", Arr(<<ToolResultBlock("t2")>>)),
   Msg("assistant", Arr(<<ToolResultBlock("t2")>>)),
   Msg("assistant", Arr(<<ToolUseBlock("t2"), FutureBlock>>)),
   Msg("system", Str("be brief")),
   Msg("user", Str("")),
   Msg("user", Arr(<<ToolResultBlock("")>>))}

ValidationResult(errors, warnings) ==
  [valid |-> errors = <<>>, errors |-> errors, warnings |-> warnings]

\* `ContentBlock at index ${index}...`, `Message ${i}: ${e}`
AtIndex(index, text) == [index |-> index, message |-> -1, text |-> text]
AtMessage(i, e) == [e EXCEPT !.message = i]
Plain(text) == AtIndex(-1, text)

validateContentBlock(block, index) ==
  IF block.type = "" THEN <<AtIndex(index, "must have a type")>>
  ELSE IF block.type = "text"
  THEN IF ~block.rest THEN <<AtIndex(index, "text block must have text property")>>
       ELSE <<>>
  ELSE IF block.type = "tool_use"
  THEN (IF block.id = "" THEN <<AtIndex(index, "tool_use must have id")>> ELSE <<>>)
       \o (IF ~block.rest
           THEN <<AtIndex(index, "tool_use must have name"),
                  AtIndex(index, "tool_use must have input")>>
           ELSE <<>>)
  ELSE IF block.type = "tool_result"
  THEN (IF block.tool_use_id = ""
        THEN <<AtIndex(index, "tool_result must have tool_use_id")>> ELSE <<>>)
       \o (IF ~block.rest THEN <<AtIndex(index, "tool_result must have content")>>
           ELSE <<>>)
  ELSE IF block.type = "image"
  THEN IF ~block.rest THEN <<AtIndex(index, "image must have source")>> ELSE <<>>
  ELSE <<>>

RECURSIVE BlockErrors(_, _)
BlockErrors(blocks, i) ==
  IF i >= Len(blocks) THEN <<>>
  ELSE validateContentBlock(blocks[i + 1], i) \o BlockErrors(blocks, i + 1)

validateMessage(message) ==
  LET roleErrors ==
        IF message.role # "user" /\ message.role # "assistant"
        THEN <<Plain("Message role must be \"user\" or \"assistant\"")>>
        ELSE <<>>
      contentErrors ==
        IF message.content.t = "string"
        THEN IF message.content.text = ""
             THEN <<Plain("Message must have content")>> ELSE <<>>
        ELSE BlockErrors(message.content.blocks, 0)
  IN ValidationResult(roleErrors \o contentErrors, <<>>)

\* The tool_use ids a message adds to toolUseIds.
ToolUseIdsOf(message) ==
  IF message.role = "assistant" /\ message.content.t = "array"
  THEN {message.content.blocks[k].id : k \in
          {k \in 1..Len(message.content.blocks) :
              /\ message.content.blocks[k].type = "tool_use"
              /\ message.content.blocks[k].id # ""}}
  ELSE {}

\* The warnings for the tool_result blocks of message i.
RECURSIVE UnknownIdWarnings(_, _, _)
UnknownIdWarnings(blocks, i, toolUseIds) ==
  IF blocks = <<>> THEN <<>>
  ELSE LET block == Head(blocks)
           here == IF /\ block.type = "tool_result" /\ block.tool_use_id # ""
                      /\ block.tool_use_id \notin toolUseIds
                   THEN <<AtMessage(i, Plain("tool_result references unknown tool_use_id"))>>
                   ELSE <<>>
       IN here \o UnknownIdWarnings(Tail(blocks), i, toolUseIds)

\* A variant of the loop of validateMessageSequence that forgets the ids
\* of the messages before.
RECURSIVE SequenceLoop_perMessage(_, _, _, _)
SequenceLoop_perMessage(messages, i, toolUseIds, result) ==
  IF i >= Len(messages) THEN result
  ELSE LET message == messages[i + 1]
           v == validateMessage(message)
           ids == ToolUseIdsOf(message)
           ws == IF message.role = "user" /\ message.content.t = "array"
                 THEN UnknownIdWarnings(message.content.blocks, i, ids)
                 ELSE <<>>
       IN SequenceLoop_perMessage(messages, i + 1, ids,
            [errors |-> result.errors
                          \o [k \in 1..Len(v.errors) |-> AtMessage(i, v.errors[k])],
             warnings |-> result.warnings \o ws])

\* The loop of validateMessageSequence from message i on.
RECURSIVE SequenceLoop(_, _, _, _)
SequenceLoop(messages, i, toolUseIds, result) ==
  IF i >= Len(messages) THEN result
  ELSE LET message == messages[i + 1]
           v == validateMessage(message)
           ids == toolUseIds \cup ToolUseIdsOf(message)
           ws == IF message.role = "user" /\ message.content.t = "array"
                 THEN UnknownIdWarnings(message.content.blocks, i, ids)
                 ELSE <<>>
       IN SequenceLoop(messages, i + 1, ids,
            [errors |-> result.errors
                          \o [k \in 1..Len(v.errors) |-> AtMessage(i, v.errors[k])],
             warnings |-> result.warnings
                          \o [k \in 1..Len(v.warnings) |-> AtMessage(i, v.warnings[k])]
                          \o ws])

validateMessageSequence(messages) ==
  LET r == SequenceLoop(messages, 0, {}, [errors |-> <<>>, warnings |-> <<>>])
  IN ValidationResult(r.errors, r.warnings)

HasBlock(message, type) ==
  /\ message.content.t = "array"
  /\ \E k \in 1..Len(message.content.blocks) : message.content.blocks[k].type = type

\* A variant that writes the new message into the list it was given.
EditTarget_inPlace(messages, editIndex, newMessage) ==
  [messages EXCEPT ![editIndex + 1] = newMessage]

\* What the edit leaves in the list it was given: the new message goes
\* into the copy [...messages].
EditTarget(messages, editIndex, newMessage) == messages

\* validateMessageEdit(messages, editIndex, newMessage): its result and
\* the list it was given, afterwards.
validateMessageEdit(messages, editIndex, newMessage) ==
  LET v == validateMessage(newMessage) IN
  IF editIndex < 0 \/ editIndex >= Len(messages)
  THEN [result |-> [valid |-> FALSE,
                    errors |-> v.errors \o <<Plain("Edit index out of bounds")>>,
                    warnings |-> v.warnings],
        messages |-> messages]
  ELSE LET editedMessages == [messages EXCEPT ![editIndex + 1] = newMessage]
           sv == validateMessageSequence(editedMessages)
           w1 == IF newMessage.role = "user" /\ HasBlock(newMessage, "tool_result")
                 THEN <<Plain("Editing tool_result blocks may invalidate subsequent messages that depend on these results")>>
                 ELSE <<>>
           w2 == IF newMessage.role = "assistant" /\ HasBlock(newMessage, "tool_use")
                 THEN <<Plain("Editing tool_use blocks may invalidate subsequent tool_result messages")>>
                 ELSE <<>>
       IN [result |-> ValidationResult(v.errors \o sv.errors,
                                       v.warnings \o sv.warnings \o w1 \o w2),
           messages |-> EditTarget(messages, editIndex, newMessage)]

NoValidation == [valid |-> TRUE, errors |-> <<>>, warnings |-> <<>>]

\* One call: its arguments, and when it has returned its result; given is
\* the list as it was passed.
EditCall(messages, editIndex, newMessage) ==
  [pc |-> "call", messages |-> messages, editIndex |-> editIndex,
   newMessage |-> newMessage, given |-> messages, result |-> NoValidation]

IdleEdit == [EditCall(<<>>, 0, Msg("user", Str("go"))) EXCEPT !.pc = "idle"]

EditCalls ==
  {EditCall(messages, editIndex, newMessage) :
     messages \in SeqsUpTo(ListMessages, MaxMessages),
     editIndex \in -1..MaxMessages,
     newMessage \in NewMessages}

\* The call returns.
ValidateEdit ==
  /\ edit.pc = "call"
  /\ LET r == validateMessageEdit(edit.messages, edit.editIndex, edit.newMessage)
     IN edit' = [edit EXCEPT !.pc = "done", !.result = r.result,
                             !.messages = r.messages]
  /\ UNCHANGED <<engineVars, proxyVars, validation, limiter, session, tracking,
                 logger>>
\* ------------------------------------------------------ phaseTracking
MaxEvents == 3

CodeWritingPrompt == "You are the CODE WRITING AGENT."
PresentationPrompt == "You are the PRESENTATION AGENT."
BothPrompt == "After the CODE WRITING AGENT comes the PRESENTATION AGENT."

\* text.includes(marker), for the texts of PhaseMessages
Includes(text, marker) ==
  \/ marker = "CODE WRITING AGENT" /\ text \in {CodeWritingPrompt, BothPrompt}
  \/ marker = "PRESENTATION AGENT" /\ text \in {PresentationPrompt, BothPrompt}

PhaseMessages ==
  {Msg("user", Str("go")),
   Msg("user", Str(CodeWritingPrompt)),
   Msg("user", Str(PresentationPrompt)),
   Msg("user", Str(BothPrompt)),
   Msg("assistant", Str(CodeWritingPrompt)),
   Msg("user", Arr(<<TextBlock>>))}

\* An AgentEvent: its type and, to tell events apart, its place in the
\* list given.
EventTypes == {"complete", "thinking"}
AgentEvents(types) == [i \in 1..Len(types) |-> [type |-> types[i], n |-> i]]

\* The phase a message starts: "" for none.
TransitionOf(msg) ==
  IF msg.role = "user" /\ msg.content.t = "string"
  THEN IF Includes(msg.content.text, "CODE WRITING AGENT") THEN "code-writing"
       ELSE IF Includes(msg.content.text, "PRESENTATION AGENT") THEN "presentation"
       ELSE ""
  ELSE ""

\* transitionIndices: the forEach over the messages from index on.
RECURSIVE TransitionIndices(_, _)
TransitionIndices(messages, index) ==
  IF index >= Len(messages) THEN <<>>
  ELSE (IF TransitionOf(messages[index + 1]) # ""
        THEN <<[index |-> index, phase |-> TransitionOf(messages[index + 1])]>>
        ELSE <<>>) \o TransitionIndices(messages, index + 1)

\* messages.slice(start, end), for 0 <= start <= end <= length
Slice(messages, start, end) == SubSeq(messages, start + 1, end)

PhaseData(name, messages, start, end) ==
  [name |-> name, messages |-> Slice(messages, start, end), events |-> <<>>,
   startIndex |-> start, endIndex |-> end]

\* A variant whose phases end one message early.
PhaseEnd_short(transitionIndices, i, length) ==
  IF i < Len(transitionIndices) - 1 THEN transitionIndices[i + 2].index - 1
  ELSE length

\* The end of the phase of transitionIndices[i] (i from 0).
PhaseEnd(transitionIndices, i, length) ==
  IF i < Len(transitionIndices) - 1 THEN transitionIndices[i + 2].index
  ELSE length

splitMessagesByPhase(messages) ==
  LET transitionIndices == TransitionIndices(messages, 0)
      explorationEnd == IF Len(transitionIndices) > 0 THEN transitionIndices[1].index
                        ELSE Len(messages)
      first == IF explorationEnd > 0
               THEN <<PhaseData("exploration", messages, 0, explorationEnd)>>
               ELSE <<>>
  IN first \o
     [k \in 1..Len(transitionIndices) |->
        PhaseData(transitionIndices[k].phase, messages,
                  transitionIndices[k].index,
                  PhaseEnd(transitionIndices, k - 1, Len(messages)))]

\* A variant of the loop of assignEventsToPhases that moves on before it
\* pushes the complete event.
RECURSIVE AssignLoop_early(_, _, _)
AssignLoop_early(events, phases, currentPhaseIndex) ==
  IF events = <<>> THEN phases
  ELSE LET event == Head(events) IN
       IF event.type = "complete" /\ currentPhaseIndex < Len(phases) - 1
       THEN AssignLoop_early(Tail(events),
              [phases EXCEPT ![currentPhaseIndex + 2].events = Append(@, event)],
              currentPhaseIndex + 1)
       ELSE AssignLoop_early(Tail(events),
              IF currentPhaseIndex < Len(phases)
              THEN [phases EXCEPT ![currentPhaseIndex + 1].events = Append(@, event)]
              ELSE phases,
              currentPhaseIndex)

\* The loop of assignEventsToPhases over the events left.
RECURSIVE AssignLoop(_, _, _)
AssignLoop(events, phases, currentPhaseIndex) ==
  IF events = <<>> THEN phases
  ELSE LET event == Head(events) IN
       IF event.type = "complete" /\ currentPhaseIndex < Len(phases) - 1
       THEN AssignLoop(Tail(events),
              [phases EXCEPT ![currentPhaseIndex + 1].events = Append(@, event)],
              currentPhaseIndex + 1)
       ELSE AssignLoop(Tail(events),
              IF currentPhaseIndex < Len(phases)
              THEN [phases EXCEPT ![currentPhaseIndex + 1].events = Append(@, event)]
              ELSE phases,
              currentPhaseIndex)

\* assignEventsToPhases(events, phases): the phases afterwards.
assignEventsToPhases(events, phases) ==
  IF Len(phases) = 0 THEN phases ELSE AssignLoop(events, phases, 0)

getPhaseData(messages, events) ==
  assignEventsToPhases(events, splitMessagesByPhase(messages))

\* One call of getPhaseData: its arguments and, when it has returned, the
\* phases.
PhaseCall(messages, events) ==
  [pc |-> "call", messages |-> messages, events |-> events, phases |-> <<>>]

IdleTracking == [PhaseCall(<<>>, <<>>) EXCEPT !.pc = "idle"]

PhaseCalls ==
  {PhaseCall(messages, AgentEvents(types)) :
     messages \in SeqsUpTo(PhaseMessages, MaxMessages),
     types \in SeqsUpTo(EventTypes, MaxEvents)}

\* The call returns.
GetPhaseData ==
  /\ tracking.pc = "call"
  /\ tracking' = [tracking EXCEPT !.pc = "done",
                     !.phases = getPhaseData(tracking.messages, tracking.events)]
  /\ UNCHANGED <<engineVars, proxyVars, validation, limiter, session, edit,
                 logger>>
\* -------------------------------------------------------------- Logger
FlushThreshold == 50
MaxLogged == 2
MaxFlushes == 2
MaxFlushStarts == 3

Flushes == 1..MaxFlushes

\* One invocation of flush(): where it is, the content of the File object
\* it got (a snapshot of the file taken by getFile) and its local
\* newContent.
IdleFlush == [pc |-> "idle", existingContent |-> <<>>, newContent |-> <<>>]

\* An entry is written as the number it has in logging order; the file is
\* the sequence of the entries in it.  logged counts the entries passed to
\* logEvent and log, starts the calls of flush().
LoggerWith(n) ==
  [logEntries |-> [i \in 1..n |-> i], flushTimeout |-> IF n = 0 THEN "none" ELSE "armed",
   file |-> <<>>, flush |-> [f \in Flushes |-> IdleFlush],
   logged |-> n, first |-> n, starts |-> 0]

\* A new Logger.
IdleLogger == LoggerWith(0)

\* A new Logger, and one that was given FlushThreshold entries before
\* its timer fired.
Loggers == {LoggerWith(0), LoggerWith(FlushThreshold)}

\* The synchronous part of flush(), as invocation f: nothing when no
\* entry is pending, otherwise up to the first await.
BeginFlush(l, f) ==
  IF l.logEntries = <<>> THEN l
  ELSE [l EXCEPT !.flush[f].pc = "reading", !.starts = @ + 1]

\* An invocation of flush() that is not in use.
FreeFlush(l) == CHOOSE f \in Flushes : l.flush[f].pc = "idle"
CanFlush(l) ==
  /\ \E f \in Flushes : l.flush[f].pc = "idle"
  /\ l.starts < MaxFlushStarts

\* scheduleFlush(): clear the timer; flush at once with more than
\* FlushThreshold entries pending, otherwise set the timer anew.
scheduleFlush(l) ==
  IF Len(l.logEntries) > FlushThreshold
  THEN BeginFlush([l EXCEPT !.flushTimeout = IF @ = "armed" THEN "cleared" ELSE @],
                  FreeFlush(l))
  ELSE [l EXCEPT !.flushTimeout = "armed"]

\* logEvent(phase, event) or log(phase, message): push the entry and
\* schedule a flush.
Log ==
  /\ logger.logged < logger.first + MaxLogged
  /\ Len(logger.logEntries) >= FlushThreshold => CanFlush(logger)
  /\ logger' = scheduleFlush([logger EXCEPT !.logged = @ + 1,
                                !.logEntries = Append(@, logger.logged + 1)])
  /\ UNCHANGED <<engineVars, proxyVars, validation, limiter, session, edit,
                 tracking>>

\* The timer set by scheduleFlush fires: flush().
FlushTimer ==
  /\ logger.flushTimeout = "armed"
  /\ CanFlush(logger)
  /\ logger' = BeginFlush([logger EXCEPT !.flushTimeout = "fired"],
                          FreeFlush(logger))
  /\ UNCHANGED <<engineVars, proxyVars, validation, limiter, session, edit,
                 tracking>>

\* forceFlush()
ForceFlush ==
  /\ CanFlush(logger)
  /\ logger.logEntries # <<>>
  /\ logger' = BeginFlush(logger, FreeFlush(logger))
  /\ UNCHANGED <<engineVars, proxyVars, validation, limiter, session, edit,
                 tracking>>

\* getFileHandle and getFile have resolved: the File object holds the
\* content the file has now; file.text() is awaited.
FlushGetFile(f) ==
  /\ logger.flush[f].pc = "reading"
  /\ logger' = [logger EXCEPT !.flush[f].pc = "text",
                   !.flush[f].existingContent = logger.file]
  /\ UNCHANGED <<engineVars, proxyVars, validation, limiter, session, edit,
                 tracking>>

\* file.text() has resolved with the content of the File object:
\* newContent is that content plus the entries pending now; createWritable
\* is called.
FlushRead(f) ==
  /\ logger.flush[f].pc = "text"
  /\ logger' = [logger EXCEPT !.flush[f].pc = "writing",
                   !.flush[f].newContent =
                       logger.flush[f].existingContent \o logger.logEntries]
  /\ UNCHANGED <<engineVars, proxyVars, validation, limiter, session, edit,
                 tracking>>

\* createWritable, write and close have done their work: the file holds
\* newContent.
FlushWrite(f) ==
  /\ logger.flush[f].pc = "writing"
  /\ logger' = [logger EXCEPT !.flush[f].pc = "closed",
                   !.file = logger.flush[f].newContent]
  /\ UNCHANGED <<engineVars, proxyVars, validation, limiter, session, edit,
                 tracking>>

\* After await writable.close(): this.logEntries = [] and the timer is
\* cleared.
AfterClose(l, f) ==
  [l EXCEPT !.logEntries = <<>>, !.flushTimeout = "none", !.flush[f] = IdleFlush]

\* flush() goes on after close() and returns.
FlushDone(f) ==
  /\ logger.flush[f].pc = "closed"
  /\ logger' = AfterClose(logger, f)
  /\ UNCHANGED <<engineVars, proxyVars, validation, limiter, session, edit,
                 tracking>>

InitUtil ==
  /\ limiter = IdleLimiter
  /\ session = IdleSession
  /\ edit = IdleEdit
  /\ tracking = IdleTracking
  /\ logger = IdleLogger

InitLib ==
  /\ validation = IdleValidations
  /\ InitUtil

Prompts == {"go"}
Callbacks == {"ok", "none", "throws", "throwsFirst"}
CheckpointIntervals == {0, 1, DEFAULT_CHECKPOINT_INTERVAL}

\* The listeners subscribed with on(), in subscription order: what each
\* does when it is called.
Listeners(profile) ==
  IF profile.name \in {"listing", "reading", "imaging"} THEN <<"ok">>
  ELSE IF profile.name = "basic" THEN <<"throws", "ok">>
  ELSE IF profile.name = "subscribing" THEN <<"ok", "throws", "ok">>
  ELSE <<"ok", "throws">>

\* How many of them are subscribed before the first run: all, or all but
\* the last, which on() is given later.
Subscribed(profile) ==
  IF profile.name = "subscribing" THEN Len(Listeners(profile)) - 1
  ELSE Len(Listeners(profile))

\* The chatStream calls of another user of the client that may end while
\* one record keeps the events, and the subscription changes the engine's
\* user may make.
Streams(profile) == IF profile.name = "streaming" THEN MaxStreams ELSE 0
SubscriptionChanges(profile) ==
  IF profile.name = "subscribing" THEN MaxSubscriptionChanges ELSE 0

Env(maxIt, interval, callback, runs, concurrent, profile) ==
  [maxIterations |-> maxIt, checkpointInterval |-> interval,
   callback |-> callback, runs |-> runs, concurrent |-> concurrent,
   profile |-> profile, listeners |-> Listeners(profile),
   subscribed |-> Subscribed(profile),
   streams |-> Streams(profile),
   subscriptionChanges |-> SubscriptionChanges(profile),
   \* the client was constructed with a rate limiter (the default)
   limited |-> TRUE]

Envs ==
  {Env(n, 2, "ok", 1, FALSE, p) : n \in 1..MaxIter, p \in ToolProfiles}
  \cup {Env(n, 2, "ok", 1, FALSE, p) : n \in 1..MaxIter, p \in FailingProfiles}
  \cup {Env(n, 2, "ok", MaxRuns, FALSE, DeniedProfile) : n \in 1..MaxIter}
  \cup {Env(n, 1, "ok", MaxRuns, FALSE, RelistingProfile) : n \in 1..MaxIter}
  \cup {Env(n, i, c, MaxRuns, FALSE, BasicProfile) :
           n \in 1..MaxIter, i \in CheckpointIntervals, c \in Callbacks}
  \cup {Env(n, 2, "ok", 1, FALSE, MistypedProfile) : n \in 1..MaxIter}
  \cup {Env(1, 2, "ok", 1, FALSE, p) :
           p \in {StreamingProfile, SubscribingProfile}}

\* The first listeners were subscribed with on() after construction, one
\* call of on() each.  touched and changes keep the later calls.
InitialSubscriptions ==
  [listeners |-> [i \in 1..env.subscribed |-> i], touched |-> {},
   changes |-> 0]

InitEngine ==
  /\ run = [r \in Runs |-> IdleRun]
  /\ subscriptions = InitialSubscriptions
  /\ abortCtl = [exists |-> FALSE, aborted |-> FALSE]
  /\ stored = NoCheckpoint
  /\ cpCalls = 0
  /\ started = 0

InitRest ==
  /\ InitEngine
  /\ rateLimiter = env.limited
  /\ InitProxy
  /\ InitLib

Init == env \in Envs /\ InitRest

\* The page is closed or crashes while run r is in flight, and is loaded
\* again: every call in flight is gone, and the engine and the client are
\* built anew, the same way: no abort controller, the listeners of
\* construction, the client's rate limiter of construction, and a
\* checkpoint callback that has not been invoked.  What the callback
\* persisted stays.
Crash(r) ==
  /\ Active(r)
  /\ started < env.runs
  /\ run' = [q \in Runs |->
               IF Active(q) THEN [run[q] EXCEPT !.pc = "crashed", !.fresh = FALSE]
               ELSE run[q]]
  /\ validation' = [c \in Validations |->
                      IF Validating(c) THEN [validation[c] EXCEPT !.pc = "crashed"]
                      ELSE validation[c]]
  /\ abortCtl' = [exists |-> FALSE, aborted |-> FALSE]
  /\ cpCalls' = 0
  /\ rateLimiter' = env.limited
  /\ subscriptions' = [subscriptions EXCEPT
                         !.listeners = InitialSubscriptions.listeners]
  /\ UNCHANGED <<utilVars, proxyVars, env, stored, started>>

\* The steps of the engine's runs and of what they wait for.
NextRun ==
  \/ \E r \in Runs, p \in Prompts : Run(r, p)
  \/ \E r \in Runs : Resume(r)
  \/ Stop
  \/ \E r \in Runs : HttpRespond(r)
  \/ \E r \in Runs : ClientWake(r)
  \/ \E r \in Runs : EngineWake(r)
  \/ \E r \in Runs : ToolSettle(r)
  \/ \E r \in Runs : Crash(r)

\* The runs, another user of the client, and the engine's user
\* subscribing and unsubscribing.
Next ==
  \/ NextRun
  \/ \E r \in Runs, totals \in StreamTotals : ChatStreamEnd(r, totals)
  \/ \E i \in 1..Len(env.listeners) : On(i)
  \/ \E i \in 1..Len(env.listeners) : Unsubscribe(i)

Spec == Init /\ [][Next]_vars

\* A caller that does not await its runs before starting another one.
ConcProfile ==
  Profile("overlap", FewAnswers, {AnthropicError(500, 0), AnthropicError(429, 2000)},
          MAX_RETRIES, BasicCalls, 1)

ConcEnvs == {Env(1, 1, "ok", 2, TRUE, ConcProfile)}

InitConc == env \in ConcEnvs /\ InitRest

SpecConc == InitConc /\ [][NextRun]_vars

\* The same caller, with timers that fire: a sleep of the client ends.
SpecConcTimers ==
  InitConc /\ [][NextRun]_vars /\ \A r \in Runs : WF_vars(ClientWake(r))

\* The quota proxy on its own, the engine at rest.
ProxyEnvs == {Env(1, 1, "ok", 1, FALSE, BasicProfile)}

InitQuota == env \in ProxyEnvs /\ InitRest

NextQuota ==
  \/ \E p \in Posts : PostArrive(p)
  \/ \E p \in Posts : PostBody(p)
  \/ \E p \in Posts : PostFetch(p)
  \/ \E p \in Posts : PostJson(p)
  \/ onRequestGet
  \/ Restart

SpecQuota == InitQuota /\ [][NextQuota]_vars

\* A client whose key is validated while an agent uses it.  The client
\* was constructed with or without a rate limiter.
ValidateProfile ==
  Profile("validating", {ToolUse("thinking")}, {AnthropicError(429, 2000)},
          MAX_RETRIES, {Call("noop", "", Returns(TRUE, NoData))}, 1)

\* The same without failures, for a page that is closed and loaded again.
ReloadingProfile ==
  Profile("reloading", {ToolUse("thinking")}, {}, 0,
          {Call("noop", "", Returns(TRUE, NoData))}, 1)

ValidateEnvs ==
  {[Env(1, 1, "ok", 1, FALSE, ValidateProfile) EXCEPT !.limited = b] :
     b \in BOOLEAN}
  \cup {Env(1, 1, "ok", 2, FALSE, ReloadingProfile)}

InitValidate == env \in ValidateEnvs /\ InitRest

\* The runs of the engine and the validations of its client's key, in any
\* order and overlapping.
NextValidate ==
  \/ \E c \in Validations : ValidateApiKey(c)
  \/ \E c \in Validations : ValidateRespond(c)
  \/ \E c \in Validations : ValidateWake(c)
  \/ NextRun

SpecValidate == InitValidate /\ [][NextValidate]_vars

\* A RateLimiter on its own.
NextLimiter ==
  \/ \E d \in Ticks : Tick(d)
  \/ \E u \in Usages : RecordUsage(u)
  \/ getCurrentUsage
  \/ getCachedTokensRead
  \/ HandleRateLimitError
  \/ LimiterWake

SpecLimiter == InitQuota /\ [][NextLimiter]_vars

\* The checkpoint store of one session.
InitCheckpoints ==
  /\ env \in ProxyEnvs
  /\ InitEngine
  /\ rateLimiter = env.limited
  /\ InitProxy
  /\ validation = IdleValidations
  /\ limiter = IdleLimiter
  /\ session \in StoredSessions
  /\ edit = IdleEdit
  /\ tracking = IdleTracking
  /\ logger = IdleLogger

NextCheckpoints ==
  \/ \E iteration \in SaveIterations, stored_ \in BOOLEAN :
        saveIterationCheckpoint(iteration, stored_)
  \/ \E iteration \in DeleteIterations, stored_ \in BOOLEAN :
        deleteCheckpoint(iteration, stored_)
  \/ clearSessionCheckpoints

SpecCheckpoints == InitCheckpoints /\ [][NextCheckpoints]_vars

\* One call of validateMessageEdit for each list, index and new message.
InitEdit ==
  /\ env \in ProxyEnvs
  /\ InitEngine
  /\ rateLimiter = env.limited
  /\ InitProxy
  /\ validation = IdleValidations
  /\ limiter = IdleLimiter
  /\ session = IdleSession
  /\ edit \in EditCalls
  /\ tracking = IdleTracking
  /\ logger = IdleLogger

NextEdit == ValidateEdit

SpecEdit == InitEdit /\ [][NextEdit]_vars

\* One call of getPhaseData for each message list and event list.
InitPhases ==
  /\ env \in ProxyEnvs
  /\ InitEngine
  /\ rateLimiter = env.limited
  /\ InitProxy
  /\ validation = IdleValidations
  /\ limiter = IdleLimiter
  /\ session = IdleSession
  /\ edit = IdleEdit
  /\ tracking \in PhaseCalls
  /\ logger = IdleLogger

NextPhases == GetPhaseData

SpecPhases == InitPhases /\ [][NextPhases]_vars

\* A Logger, the code that logs and the file system.
InitLogger ==
  /\ env \in ProxyEnvs
  /\ InitEngine
  /\ rateLimiter = env.limited
  /\ InitProxy
  /\ validation = IdleValidations
  /\ limiter = IdleLimiter
  /\ session = IdleSession
  /\ edit = IdleEdit
  /\ tracking = IdleTracking
  /\ logger \in Loggers

NextLogger ==
  \/ Log
  \/ FlushTimer
  \/ ForceFlush
  \/ \E f \in Flushes : FlushGetFile(f)
  \/ \E f \in Flushes : FlushRead(f)
  \/ \E f \in Flushes : FlushWrite(f)
  \/ \E f \in Flushes : FlushDone(f)

SpecLogger == InitLogger /\ [][NextLogger]_vars

\* =============================================================== claims
Started(r) == run[r].kind # "none"
Ended(r) == run[r].pc \in {"done", "rejected"}
\* The run entered the while loop: run(), or resume() below the budget.
EntersLoop(r) ==
  run[r].kind = "run" \/ (run[r].kind = "resume" /\ run[r].seed.iteration < maxIterations)
\* No stop was observed, the checkpoint callback did not throw and no
\* tool rejected with null or undefined.
Undisturbed(r) == ~run[r].stopSeen /\ ~run[r].cpThrew /\ ~run[r].toolCrash

\* C1: while every request is answered 529 (overloaded) a run never makes
\* more than MAX_CONSECUTIVE_ERRORS calls of client.chat, and when it has
\* ended it has made exactly that many and its status is error.
C1_OverloadCap ==
  \A r \in Runs :
    (Started(r) /\ run[r].onlyOverload) =>
      /\ run[r].chatCalls <= MAX_CONSECUTIVE_ERRORS
      /\ (Ended(r) /\ EntersLoop(r) /\ Undisturbed(r)) =>
            /\ run[r].chatCalls = MAX_CONSECUTIVE_ERRORS
            /\ run[r].pc = "done"
            /\ run[r].status = "error"
            /\ ~run[r].result.success

C1_Witness ==
  \E r \in Runs :
    /\ run[r].kind = "run" /\ run[r].onlyOverload /\ run[r].pc = "done"
    /\ Undisturbed(r)
    /\ run[r].chatCalls = 3 /\ run[r].failStreak = 9

\* The known tools among the tool_use blocks, in request order.
KnownIds(uses) ==
  LET known == SelectSeq(uses, LAMBDA u : findTool(u.name))
  IN [i \in 1..Len(known) |-> known[i].id]

\* The aggregated message of the last finished tool turn answers the
\* assistant message before it block by block, and every known tool ran.
TurnAnswered(r, IsError(_)) ==
  LET s == run[r]
      m == s.messages[s.turnMsg]
  IN /\ s.messages[s.turnMsg - 1] = [role |-> "assistant",
            text |-> s.messages[s.turnMsg - 1].text, blocks |-> s.toolUses]
     /\ m.role = "user"
     /\ Len(m.blocks) = Len(s.toolUses)
     /\ Len(s.outcomes) = Len(s.toolUses)
     /\ \A i \in 1..Len(s.toolUses) :
          /\ m.blocks[i].type = "tool_result"
          /\ m.blocks[i].tool_use_id = s.toolUses[i].id
          /\ m.blocks[i].is_error <=> IsError(s.outcomes[i])
          /\ (s.outcomes[i] = Unknown) <=> ~findTool(s.toolUses[i].name)
     /\ s.executed = KnownIds(s.toolUses)

Failed(o) == o.kind \in {"unknown", "throw"} \/ (o.kind = "ret" /\ ~o.success)

\* C2 as claimed: after every tool turn the aggregated user message holds
\* one tool_result per requested tool, in order, with the tool_use ids,
\* and is_error exactly for the tools that threw, failed or were unknown;
\* and every turn that requested tools and is over has got that message.
C2_Original ==
  \A r \in Runs : Started(r) =>
    /\ run[r].turnMsg # 0 => TurnAnswered(r, Failed)
    /\ (run[r].toolUses # <<>> /\ run[r].pc \notin {"tool", "crashed"}) =>
          run[r].turnMsg # 0

\* The same run occupies slot r before and after the step.
SameRun(r) == started' = started /\ Started(r)

Terminals(r) == run[r].ev.complete + run[r].ev.error_fatal

\* C3 as claimed: a run emits at most one terminal event (complete or the
\* fatal error), exactly one once it has ended, complete only with status
\* complete and the fatal error only with status error; and the status
\* moves only from running to complete or to error, where it stays.
C3_TerminalOnce ==
  /\ [](\A r \in Runs : Started(r) =>
          /\ Terminals(r) <= 1
          /\ Ended(r) => Terminals(r) = 1
          /\ run[r].ev.complete = 1 => run[r].status = "complete"
          /\ run[r].ev.error_fatal = 1 => run[r].status = "error")
  /\ [][\A r \in Runs : SameRun(r) =>
          \/ run[r].status' = run[r].status
          \/ run[r].status = "running" /\ run[r].status' \in {"complete", "error"}]_vars

\* C4 as claimed: a resumed run that was stopped at once and has ended by
\* that stop made no transport call, and the checkpoint written last has
\* the messages, discoveries and token usage of the checkpoint it resumed.
C4_ResumeStopRoundTrip ==
  \A r \in Runs :
    (run[r].kind = "resume" /\ run[r].immStop /\ run[r].stopSeen
       /\ run[r].pc = "done" /\ ~run[r].cpThrew) =>
      /\ run[r].chatCalls = 0
      /\ stored.messages = run[r].seed.messages
      /\ stored.discoveries = run[r].seed.discoveries
      /\ stored.tokenUsage = run[r].seed.tokenUsage

NoDuplicateIds(discoveries) ==
  \A i, j \in 1..Len(discoveries) :
    discoveries[i].id = discoveries[j].id => i = j

IsPrefix(a, b) == Len(a) <= Len(b) /\ \A i \in 1..Len(a) : a[i] = b[i]

\* C5: in a run started with run() no two discoveries have the same id,
\* one discovery event was emitted per entry, and a step only ever adds
\* entries at the end: an entry already present is never replaced.
C5_DiscoveryDedup ==
  /\ [](\A r \in Runs : run[r].kind = "run" =>
          /\ NoDuplicateIds(run[r].discoveries)
          /\ run[r].ev.discovery = Len(run[r].discoveries))
  /\ [][\A r \in Runs : (SameRun(r) /\ run[r].kind = "run") =>
          IsPrefix(run[r].discoveries, run[r].discoveries')]_vars

\* Two listings in one turn gave the same id with different names: the
\* first description stays and the list holds the id once.
C5_Witness ==
  \E r \in Runs :
    /\ run[r].kind = "run"
    /\ run[r].outcomes = <<Returns(TRUE, Entries(<<FileA>>)),
                           Returns(TRUE, Entries(<<FileA2, DirB, DirB>>))>>
    /\ run[r].discoveries = <<EntryDiscovery(FileA), EntryDiscovery(DirB)>>
    /\ run[r].ev.discovery = 2

\* C6: a run() whose every request is answered with tool_use has made
\* maxIterations chat calls when it ends, and ends with success = false,
\* the maximum-iterations summary, status error and all its discoveries.
C6_IterationBudget ==
  \A r \in Runs :
    (run[r].kind = "run" /\ run[r].onlyToolUse /\ run[r].failures = 0
       /\ Undisturbed(r)) =>
      /\ run[r].chatCalls <= env.maxIterations
      /\ Ended(r) =>
           /\ run[r].pc = "done"
           /\ run[r].chatCalls = env.maxIterations
           /\ run[r].status = "error"
           /\ run[r].error = "Maximum iterations reached"
           /\ run[r].result =
                [success |-> FALSE,
                 summary |-> <<"Agent reached maximum iterations without completing.">>,
                 discoveries |-> run[r].discoveries,
                 conversationHistory |-> run[r].messages,
                 tokenUsage |-> run[r].tokenUsage]

C6_Witness ==
  \E r \in Runs :
    /\ run[r].kind = "run" /\ run[r].onlyToolUse /\ run[r].failures = 0
    /\ Undisturbed(r) /\ run[r].pc = "done"
    /\ env.maxIterations = MaxIter /\ run[r].chatCalls = MaxIter
    /\ Len(run[r].result.discoveries) = 2

\* C7: when the first chat call of run(p) returns end_turn with text T the
\* run has ended after that one call with success = true, summary T, no
\* discoveries and the history <<user prompt, assistant message>>.
C7_CleanCompletion ==
  \A r \in Runs :
    (run[r].kind = "run" /\ run[r].firstStop = "end_turn" /\ run[r].maxCe = 0
       /\ ~run[r].cpThrew) =>
      /\ run[r].pc = "done"
      /\ run[r].chatCalls = 1
      /\ run[r].status = "complete"
      /\ \E p \in Prompts :
           run[r].result =
             [success |-> TRUE, summary |-> <<run[r].firstText>>,
              discoveries |-> <<>>,
              conversationHistory |->
                <<[role |-> "user", text |-> p, blocks |-> <<>>],
                  [role |-> "assistant", text |-> run[r].firstText, blocks |-> <<>>]>>,
              tokenUsage |-> [input |-> Usage.input_tokens,
                              output |-> Usage.output_tokens]]

C7_Witness ==
  \E r \in Runs :
    /\ run[r].kind = "run" /\ run[r].firstStop = "end_turn" /\ run[r].maxCe = 0
    /\ run[r].firstText = "done" /\ run[r].pc = "done" /\ run[r].result.success

\* The scenario of C8: one request of the run failed, with 429 and a retry
\* delay, and the run then completed on its first answer.
RateLimitRecovered(r) ==
  /\ run[r].kind = "run" /\ run[r].pc = "done" /\ ~run[r].cpThrew
  /\ run[r].failures = 1 /\ run[r].lastError.status = 429
  /\ run[r].lastError.retryAfterMs # 0
  /\ run[r].firstStop = "end_turn"

\* C8 as claimed: subscribers saw one rate_limit event with waiting = true
\* and one with waiting = false.
C8_Original ==
  \A r \in Runs : RateLimitRecovered(r) =>
    /\ Len(run[r].rlLog) = 2
    /\ run[r].rlLog[1].waiting /\ run[r].rlLog[1].waitMs = run[r].lastError.retryAfterMs
    /\ ~run[r].rlLog[2].waiting
    /\ run[r].rlSleepMs = run[r].lastError.retryAfterMs
    /\ run[r].result.success /\ run[r].maxCe = 0

\* C8 amended: one waiting = true event with the delay, then the resumed
\* event (waiting = false), then a second waiting = false event carrying
\* the usage recorded for the successful response; the only sleep is the
\* delay; the run completes and the consecutive-error counter stays 0.
C8_RateLimitRecovery ==
  \A r \in Runs : RateLimitRecovered(r) =>
    /\ Len(run[r].rlLog) = 3
    /\ run[r].rlLog[1] = [waiting |-> TRUE, cause |-> "waiting",
                          waitMs |-> run[r].lastError.retryAfterMs]
    /\ run[r].rlLog[2] = [waiting |-> FALSE, cause |-> "resumed", waitMs |-> 0]
    /\ run[r].rlLog[3] = [waiting |-> FALSE, cause |-> "usage_update", waitMs |-> 0]
    /\ run[r].rlSleepMs = run[r].lastError.retryAfterMs
    /\ run[r].backoffs = 0 /\ run[r].engineSleeps = 0
    /\ run[r].chatCalls = 1
    /\ run[r].status = "complete" /\ run[r].result.success
    /\ run[r].maxCe = 0 /\ run[r].consecutiveErrors = 0

C8_Witness ==
  \E r \in Runs : RateLimitRecovered(r) /\ run[r].rlSleepMs = 2000
                    /\ run[r].result.success

\* C9: while the checkpoint callback does not throw, a run never rejects;
\* when it has ended its result carries the final discoveries, history and
\* token usage, and success is true only after an end_turn answer.
C9_AlwaysAResult ==
  \A r \in Runs : (Started(r) /\ ~run[r].cpThrew) =>
    /\ run[r].pc # "rejected"
    /\ run[r].pc = "done" =>
         /\ run[r].result # NoResult
         /\ run[r].result.discoveries = run[r].discoveries
         /\ run[r].result.conversationHistory = run[r].messages
         /\ run[r].result.tokenUsage = run[r].tokenUsage
         /\ run[r].result.success =>
              /\ run[r].status = "complete" /\ run[r].ev.complete = 1
              /\ run[r].messages[Len(run[r].messages)].role = "assistant"
              /\ run[r].messages[Len(run[r].messages)].blocks = <<>>
         /\ ~run[r].result.success => run[r].status = "error"
    /\ run[r].pc # "done" => run[r].result = NoResult

\* A run that a tool exception did not end but a 401 did.
C9_Witness ==
  \E r \in Runs :
    /\ run[r].pc = "done" /\ ~run[r].result.success
    /\ run[r].lastError.status = 401
    /\ Len(run[r].messages) = 3
    /\ run[r].ev.error_tool = 1

\* A chat call (its requests and its sleeps) or a tool's execute is pending.
InFlight(r) == run[r].pc \in {"http", "rlsleep", "csleep", "tool"}

\* C10 as claimed: whatever run(), resume() and stop() calls are made, at
\* most one transport call or tool execution of the instance is in flight.
C10_OneInFlight == Cardinality({r \in Runs : InFlight(r)}) <= 1

\* C11 as claimed: once stop() has been called during a run, that run
\* starts no further call of client.chat.
C11_NoCallAfterStop ==
  [][\A r \in Runs : (SameRun(r) /\ run[r].stopReq) =>
        run[r].chatCalls' = run[r].chatCalls]_vars

\* C12 as claimed: a run during which stop() was requested and whose every
\* transport call succeeded with a tool_use answer ends with the stopped
\* condition: success = false and the error 'Agent execution was stopped'.
C12_StoppedCondition ==
  \A r \in Runs :
    (run[r].stopReq /\ Ended(r) /\ run[r].onlyToolUse /\ run[r].failures = 0
       /\ ~run[r].cpThrew) =>
      /\ run[r].pc = "done"
      /\ ~run[r].result.success
      /\ run[r].error = StoppedError.msg
      /\ run[r].result.summary = <<"Agent error: ", StoppedError.msg>>

\* The request answered last got a 4xx status other than 429.
ClientError(e) == e.anth /\ e.status >= 400 /\ e.status < 500 /\ e.status # 429

\* C13 as claimed: when a request was answered with a 4xx status other
\* than 429 it was the only request of its chat call, and the run has
\* ended with status error.
C13_Original ==
  \A r \in Runs :
    (Started(r) /\ ClientError(run[r].lastError) /\ ~run[r].cpThrew) =>
      /\ run[r].attempt = 0
      /\ run[r].pc = "done" /\ run[r].status = "error"

\* C13 amended: after a request was answered with a 4xx status other than
\* 429 no further request is sent, neither by the client nor by the engine;
\* the run has ended with status error and that error, whatever the
\* consecutive-error count was.  Requests of the same chat call answered
\* before it with a retryable failure were retried as usual.
C13_NoRetryOnClientError ==
  \A r \in Runs :
    (Started(r) /\ ClientError(run[r].lastError) /\ ~run[r].cpThrew) =>
      /\ run[r].pc = "done" /\ run[r].status = "error"
      /\ ~run[r].result.success
      /\ run[r].error = run[r].lastError.msg
      /\ run[r].attempt < MAX_RETRIES
      /\ run[r].failStreak <= MAX_RETRIES * (run[r].consecutiveErrors - 1)
                                + run[r].attempt + 1

\* A 401 that came when the consecutive-error count was already 1.
C13_Witness ==
  \E r \in Runs :
    /\ run[r].pc = "done" /\ run[r].lastError.status = 401
    /\ run[r].consecutiveErrors = 2 /\ run[r].attempt = 0
    /\ run[r].failures = MAX_RETRIES + 1

\* C14 as claimed: every exception thrown by a tool's execute in the turn
\* in progress has become an is_error tool_result for that tool_use
\* carrying the error message; it is not the error the run ended with, and
\* a turn that has had nothing but tool exceptions has left the
\* consecutive-error counter at 0.
C14_ToolExceptionLocal ==
  \A r \in Runs : Started(r) =>
    /\ \A i \in 1..Len(run[r].outcomes) :
         run[r].outcomes[i].kind = "throw" =>
           /\ i <= Len(run[r].toolResults)
           /\ run[r].toolResults[i] =
                createToolResult(run[r].toolUses[i].id,
                  <<"Tool execution error: ", MessageOf(run[r].outcomes[i].value)>>, TRUE)
    /\ \A v \in {"null", "undefined"} : run[r].error # MessageTypeError(v).msg
    /\ (run[r].pc = "tool" /\ run[r].failures = 0) => run[r].consecutiveErrors = 0

\* C15 as claimed: tool_call and tool_result events come in pairs: while a
\* tool's execute is pending one tool_call is unanswered, and at every
\* other point of a run (in particular whenever a transport call is in
\* flight) as many tool_result events as tool_call events were emitted.
C15_PairedToolEvents ==
  \A r \in Runs : Started(r) =>
    run[r].ev.tool_call =
      run[r].ev.tool_result + (IF run[r].pc = "tool" THEN 1 ELSE 0)

\* C16: no exception of a listener leaves emit, so none reaches the engine;
\* and every listener subscribed before the run and not unsubscribed or
\* subscribed again since, before or after one that throws, has received
\* every event the run emitted, in emission order; a listener that was
\* never subscribed has received none.
C16_ListenerIsolation ==
  \A r \in Runs : Started(r) =>
    /\ ~run[r].emitThrew
    /\ \A i \in 1..env.subscribed :
         i \notin subscriptions.touched => run[r].heard[i] = run[r].log
    /\ \A i \in (env.subscribed + 1)..Len(env.listeners) :
         i \notin subscriptions.touched => run[r].heard[i] = <<>>
    /\ \A e \in DOMAIN run[r].ev :
         run[r].ev[e] = Len(SelectSeq(run[r].log, LAMBDA x : x.type = e))

\* A run that completed after a tool turn, heard by a listener subscribed
\* after one that throws on every event.
C16_Witness ==
  \E r \in Runs :
    /\ env.listeners = <<"throws", "ok">>
    /\ run[r].pc = "done" /\ run[r].result.success
    /\ run[r].ev.tool_call = 1
    /\ Len(run[r].heard[2]) >= 7
    /\ run[r].heard[2][1].type = "status_running"
    /\ run[r].heard[2][Len(run[r].heard[2])].type = "complete"

\* The step returns the result of run r.
EndsNow(r) ==
  /\ run[r].pc' = "done"
  /\ run[r].pc # "done" \/ (started' # started /\ run[r]' # run[r])

\* C17: with a checkpoint callback configured, every step that returns a
\* run's result has invoked the callback, and the checkpoint written last
\* has the messages, discoveries and token usage of that result; and every
\* step in which a call of client.chat failed (the consecutive-error
\* counter went up), retried or not, has invoked the callback.
C17_CheckpointOnEveryEnd ==
  [][\A r \in Runs : env.callback # "none" =>
        /\ EndsNow(r) =>
             /\ cpCalls' > cpCalls
             /\ stored'.messages = run[r].result'.conversationHistory
             /\ stored'.discoveries = run[r].result'.discoveries
             /\ stored'.tokenUsage = run[r].result'.tokenUsage
        /\ (started' = started
              /\ run[r].consecutiveErrors' > run[r].consecutiveErrors) =>
             cpCalls' > cpCalls]_vars

\* A run ended by a stop after a tool turn and a retried transport error;
\* the checkpoint stored is the state returned.
C17_Witness ==
  \E r \in Runs :
    /\ run[r].pc = "done" /\ run[r].stopSeen /\ run[r].ev.error_retry >= 1
    /\ Len(run[r].messages) = 3
    /\ cpCalls >= 3
    /\ stored.messages = run[r].result.conversationHistory
    /\ stored.tokenUsage = run[r].result.tokenUsage

\* The events resume(c) emits before executeLoop: the "Resuming..." status
\* change, then one discovery event per discovery of c, in order.
ResumePrelude(c) ==
  <<[type |-> "resuming", arg |-> <<>>]>> \o
  [i \in 1..Len(c.discoveries) |-> [type |-> "discovery", arg |-> c.discoveries[i].id]]

\* C18: a resumed run has emitted, before anything else, the resuming
\* status and one discovery event per discovery of the checkpoint, in
\* order; its state extends the checkpoint's; when its first transport call
\* is in flight its messages, discoveries and token usage are the
\* checkpoint's and its iteration is checkpoint.iteration + 1; and when
\* checkpoint.iteration >= maxIterations it has made no transport call and
\* has ended with the maximum-iterations result.
C18_ResumeFromCheckpoint ==
  \A r \in Runs : run[r].kind = "resume" =>
    LET c == run[r].seed
        n == Len(c.discoveries)
    IN /\ IsPrefix(ResumePrelude(c), run[r].log)
       /\ run[r].log[n + 2].type = "status_running"
       /\ run[r].ev.discovery = Len(run[r].discoveries)
       /\ IsPrefix(c.messages, run[r].messages)
       /\ IsPrefix(c.discoveries, run[r].discoveries)
       /\ (run[r].fresh /\ run[r].pc = "http") =>
            /\ run[r].chatCalls = 1
            /\ run[r].messages = c.messages
            /\ run[r].discoveries = c.discoveries
            /\ run[r].tokenUsage = c.tokenUsage
            /\ run[r].iteration = c.iteration + 1
       /\ run[r].iteration >= c.iteration
       /\ (c.iteration < maxIterations /\ ~run[r].cpThrew) => run[r].chatCalls >= 1
       /\ (c.iteration >= maxIterations /\ ~run[r].cpThrew) =>
            /\ run[r].chatCalls = 0 /\ run[r].pc = "done"
            /\ run[r].error = "Maximum iterations reached"
            /\ run[r].result = ResultOf([messages |-> c.messages,
                                  discoveries |-> c.discoveries,
                                  tokenUsage |-> c.tokenUsage], FALSE,
                  <<"Agent reached maximum iterations without completing.">>)

\* A run resumed with two known discoveries below the budget, and one
\* resumed at the budget.
C18_Witness ==
  /\ \E r \in Runs :
       /\ run[r].kind = "resume" /\ run[r].pc = "http" /\ run[r].fresh
       /\ Len(run[r].seed.discoveries) = 2 /\ run[r].seed.iteration = 1
       /\ run[r].iteration = 2

\* C19: a step of a run only ever adds messages at the end of its history,
\* and while a call of client.chat is in progress the history it was given
\* is the whole history of the run.
C19_AppendOnlyHistory ==
  /\ [][\A r \in Runs : SameRun(r) =>
          IsPrefix(run[r].messages, run[r].messages')]_vars
  /\ [](\A r \in Runs :
          (Started(r) /\ run[r].pc \in {"http", "rlsleep", "csleep"}) =>
             run[r].sent = run[r].messages)

\* The second transport call of a run, carrying the prompt, the
\* assistant's tool request and the tool results.
C19_Witness ==
  \E r \in Runs :
    /\ run[r].kind = "run" /\ run[r].pc = "http" /\ run[r].chatCalls = 2
    /\ Len(run[r].sent) = 3 /\ run[r].sent[3].role = "user"
    /\ Len(run[r].sent[3].blocks) = 1

\* Every tool_result block of the history answers a tool_use block of the
\* message immediately before its own, which is an assistant message.
ToolResultsPaired(messages) ==
  \A m \in 1..Len(messages) :
    \A b \in 1..Len(messages[m].blocks) :
      messages[m].blocks[b].type = "tool_result" =>
        /\ m > 1
        /\ messages[m - 1].role = "assistant"
        /\ \E u \in 1..Len(messages[m - 1].blocks) :
             /\ messages[m - 1].blocks[u].type = "tool_use"
             /\ messages[m - 1].blocks[u].id = messages[m].blocks[b].tool_use_id

\* C20: in the history of every run, started with run() or resumed from a
\* checkpoint the engine wrote, and in every checkpoint written, each
\* tool_result block carries the id of a tool_use block of the assistant
\* message immediately before the message that holds it.
C20_ToolResultIds ==
  /\ \A r \in Runs : Started(r) => ToolResultsPaired(run[r].messages)
  /\ stored # NoCheckpoint => ToolResultsPaired(stored.messages)

\* A resumed run with a tool turn from before the checkpoint and one of
\* its own.
C20_Witness ==
  \E r \in Runs :
    /\ run[r].kind = "resume" /\ Len(run[r].seed.messages) = 3
    /\ Len(run[r].messages) = 5
    /\ \A m \in 2..5 : Len(run[r].messages[m].blocks) = 1
    /\ run[r].messages[3].blocks[1].tool_use_id = run[r].messages[2].blocks[1].id
    /\ run[r].messages[5].blocks[1].tool_use_id = run[r].messages[4].blocks[1].id
    /\ run[r].messages[5].blocks[1].tool_use_id # run[r].messages[3].blocks[1].tool_use_id

\* C21: once Anthropic has answered 429 or 402 the proxy's flag is set and
\* stays set until the worker restarts; no request is sent to Anthropic
\* while the flag is set, every POST answered while it is set gets
\* 402 budget_exhausted (the POSTs in flight when it was set included), and
\* GET reports available = false.
C21_BudgetLatch ==
  /\ worker.flagged => budgetExhausted
  /\ got.flagged => ~got.available
  /\ \A p \in Posts :
        /\ (posts[p].pc = "done" /\ posts[p].upstream.status \in {429, 402})
              => worker.flagged
        /\ posts[p].sentUpstream => ~posts[p].flagAtSend
        /\ (posts[p].pc = "done" /\ posts[p].flagAtReply)
              => posts[p].reply = BudgetExhaustedReply

\* The run was ended by an error of the transport that the engine retries.
RetriesExhausted(r) ==
  run[r].pc = "done" /\ run[r].error = "api" /\ isRetryable(run[r].lastError)

\* C22: the consecutive-error counter counts the transport calls that
\* failed since the last successful one (a successful call resets it to 0),
\* and a run is ended by a retryable failure only when it is the 3rd failed
\* call in a row; fewer in a row are retried, however many in total.
C22_ConsecutiveErrors ==
  \A r \in Runs : Started(r) =>
    /\ (~run[r].cpThrew /\ ~run[r].toolCrash)
          => run[r].consecutiveErrors = run[r].chatStreak
    /\ run[r].chatStreak <= MAX_CONSECUTIVE_ERRORS
    /\ RetriesExhausted(r) => run[r].chatStreak = MAX_CONSECUTIVE_ERRORS
    /\ run[r].pc = "esleep" => run[r].chatStreak < MAX_CONSECUTIVE_ERRORS

\* A run that was retried four times, two failures in a row before and
\* after a successful call, and then ended by the third failure in a row.
C22_Witness ==
  \E r \in Runs :
    /\ RetriesExhausted(r)
    /\ run[r].engineSleeps = 4
    /\ run[r].chatCalls = 6
    /\ run[r].chatStreak = MAX_CONSECUTIVE_ERRORS

\* A call of client.chat is in progress or being retried.
InTransport(s) == s.pc \in {"http", "rlsleep", "csleep", "esleep"}

\* The iteration number the run was started with.
StartIteration(s) == IF s.kind = "resume" THEN s.seed.iteration ELSE 0

\* C23: from a transport call that fails to its retry, messages,
\* discoveries, tokenUsage and the iteration number stay as they are and
\* the retry sends the same history; the iteration number of a call is the
\* number of successful calls before it plus one, whatever failed between.
C23_RetryKeepsIteration ==
  /\ [][\A r \in Runs :
          (SameRun(r) /\ InTransport(run[r]) /\ InTransport(run'[r])
             /\ run'[r].okCalls = run[r].okCalls) =>
            /\ run'[r].messages = run[r].messages
            /\ run'[r].discoveries = run[r].discoveries
            /\ run'[r].tokenUsage = run[r].tokenUsage
            /\ run'[r].iteration = run[r].iteration
            /\ run'[r].sent = run[r].sent]_vars
  /\ [](\A r \in Runs : (Started(r) /\ InTransport(run[r])) =>
          run[r].iteration = StartIteration(run[r]) + run[r].okCalls + 1)

\* A run that completed its two iterations although four calls failed and
\* were retried.
C23_Witness ==
  \E r \in Runs :
    /\ run[r].kind = "run" /\ run[r].pc = "done" /\ run[r].result.success
    /\ env.maxIterations = 2 /\ run[r].okCalls = 2 /\ run[r].iteration = 2
    /\ run[r].engineSleeps = 4

\* Run q sends a request to the endpoint in this step.
Sends(q) ==
  /\ run'[q].pc = "http"
  /\ run[q].pc # "http" \/ run'[q].chatCalls # run[q].chatCalls

\* The limiter's events of run r so far: as many resumed as waiting, but
\* for the wait in progress, which was announced with the delay of the 429.
WaitsResumed(r) ==
  LET s == run[r] IN
  IF s.pc = "rlsleep"
  THEN /\ s.ev.rl_waiting = s.ev.rl_resumed + 1
       /\ isRateLimited(s.lastError)
       /\ s.rlLog[Len(s.rlLog)] =
            [waiting |-> TRUE, waitMs |-> s.lastError.retryAfterMs, cause |-> "waiting"]
  ELSE s.pc # "crashed" => s.ev.rl_waiting = s.ev.rl_resumed

\* C24: a 429 with a retry delay d makes the limiter emit waiting with
\* waitMs = d and, when the sleep of d is over, resumed: every waiting
\* event is followed by a resumed event (unless the page is closed first),
\* and no request is sent between a waiting event and its resumed event.
C24_WaitThenResume ==
  /\ [](\A r \in Runs : Started(r) => WaitsResumed(r))
  /\ [][\A r, q \in Runs :
          (run[r].pc = "rlsleep" /\ Sends(q)) =>
             (q = r /\ run'[r].ev.rl_resumed = run[r].ev.rl_resumed + 1)]_vars
  /\ \A r \in Runs : (run[r].pc = "rlsleep") ~> (run[r].pc # "rlsleep")

\* The event comes from the loop of the run or from its own chat call,
\* not from the limiter acting for another user of the client.
OfTheLoop(e) ==
  e.type \in {"rl_usage", "rl_waiting", "rl_resumed"} => e.arg = ForChat

\* The type of the last event of the loop before position j whose type is in T
\* ("none": there is none).
PrevOf(L, j, T) ==
  LET before == {i \in 1..(j - 1) : L[i].type \in T /\ OfTheLoop(L[i])}
  IN IF before = {} THEN "none"
     ELSE L[CHOOSE i \in before : \A k \in before : k <= i].type

ToolMarks == {"tool_call", "tool_result", "error_tool", "rl_usage"}

\* C25: the events of a run, in the order the subscribers got them: first
\* status_change running (a resumed run: the one that says Resuming, its
\* discoveries, then the loop's); between a tool_call and a later thinking
\* event lies the next response of the transport; a tool's result follows
\* its own tool_call with no other tool's events between, and no tool_call
\* is emitted while a tool's execute is pending; the terminal event
\* (complete or the final error) is the last one.
C25_CausalOrder ==
  \A r \in Runs : Started(r) =>
    LET L == SelectSeq(run[r].log, OfTheLoop) IN
    /\ L # <<>>
    /\ L[1].type = IF run[r].kind = "resume" THEN "resuming" ELSE "status_running"
    /\ \E k \in 1..Len(L) :
         /\ L[k].type = "status_running"
         /\ \A j \in 2..(k - 1) : L[j].type = "discovery"
    /\ \A i, j \in 1..Len(L) :
         (i < j /\ L[i].type = "tool_call" /\ L[j].type = "thinking")
            => \E k \in (i + 1)..(j - 1) :
                  L[k].type = "rl_usage" /\ OfTheLoop(L[k])
    /\ \A j \in 1..Len(L) :
         L[j].type = "tool_result" => PrevOf(L, j, ToolMarks) = "tool_call"
    /\ run[r].pc = "tool" => PrevOf(L, Len(L) + 1, ToolMarks) = "tool_call"
    /\ \A i \in 1..Len(L) :
         L[i].type \in {"complete", "error_fatal"} => i = Len(L)
    /\ run[r].pc = "done" => L[Len(L)].type \in {"complete", "error_fatal"}
    /\ \A i \in 1..env.subscribed :
         i \notin subscriptions.touched => run[r].heard[i] = run[r].log

\* Two iterations, each with a thinking event, a tool_call and its result,
\* then the final error of the exhausted budget.
C25_Witness ==
  \E r \in Runs :
    /\ run[r].pc = "done" /\ run[r].error = "Maximum iterations reached"
    /\ run[r].ev.thinking = 2 /\ run[r].ev.tool_call = 2
    /\ run[r].ev.tool_result = 2
    /\ run[r].log[Len(run[r].log)].type = "error_fatal"

\* The payload declares includeImage = true and embeds a data-URL image.
DeclaresImage(data) ==
  \/ data.t = "image" /\ data.dataUrl \in {"data:image/png;base64,AAAA",
                                           "data:image/svg+xml;base64,AAAA"}
  \/ data.t = "screenshots"

\* C26: for every tool that returned, whatever its name: the tool_result
\* is [text, image] exactly when the payload declares includeImage = true
\* with an embedded data-URL image, plain text otherwise, and is_error is
\* the negation of result.success.
C26_ImageByPayload ==
  \A r \in Runs : Started(r) =>
    \A i \in 1..Len(run[r].toolResults) :
      LET o == run[r].outcomes[i]
          b == run[r].toolResults[i]
      IN o.kind = "ret" =>
           /\ b.shape = IF DeclaresImage(o.data) THEN "text+image" ELSE "text"
           /\ b.is_error = ~o.success

\* C27: a step of a run never removes a discovery; it adds discoveries
\* only when a tool named list_directory or read_file returned a
\* successful result in it, and it emits one discovery event per
\* discovery added: other tool names, failed results, thrown errors and
\* unknown tools add none and emit none.
C27_DiscoveriesFrame ==
  [][\A r \in Runs : SameRun(r) =>
       /\ IsPrefix(run[r].discoveries, run'[r].discoveries)
       /\ run'[r].ev.discovery - run[r].ev.discovery
            = Len(run'[r].discoveries) - Len(run[r].discoveries)
       /\ run'[r].discoveries # run[r].discoveries =>
            /\ run[r].pc = "tool"
            /\ run[r].toolUses[run[r].toolIdx].name \in {"list_directory", "read_file"}
            /\ LET o == run'[r].outcomes[Len(run[r].outcomes) + 1]
               IN o.kind = "ret" /\ o.success]_vars

\* A turn of two listings: the failed one added nothing, the successful
\* one its entry.
C27_Witness ==
  \E r \in Runs :
    /\ run[r].outcomes = <<Returns(FALSE, Entries(<<FileA>>)),
                           Returns(TRUE, Entries(<<FileA>>))>>
    /\ run[r].discoveries = <<EntryDiscovery(FileA)>>
    /\ run[r].ev.discovery = 1

\* The token usage the run was started with.
StartUsage(s) ==
  IF s.kind = "resume" THEN s.seed.tokenUsage ELSE [input |-> 0, output |-> 0]

\* C28: at every point of a run tokenUsage is what the run started with
\* plus the usage of every successful response of the transport so far;
\* and no step of a run lowers it, or changes it without a successful
\* response.
C28_TokenUsageSum ==
  /\ [](\A r \in Runs : Started(r) =>
          /\ run[r].tokenUsage.input =
               StartUsage(run[r]).input + run[r].usageSum.input
          /\ run[r].tokenUsage.output =
               StartUsage(run[r]).output + run[r].usageSum.output)
  /\ [][\A r \in Runs : SameRun(r) =>
          /\ run'[r].tokenUsage.input >= run[r].tokenUsage.input
          /\ run'[r].tokenUsage.output >= run[r].tokenUsage.output
          /\ run'[r].okCalls = run[r].okCalls
               => run'[r].tokenUsage = run[r].tokenUsage]_vars

\* A resumed run that ended with an answer of its own, on top of the
\* usage of the tool turn recorded in its checkpoint.
C28_Witness ==
  \E r \in Runs :
    /\ run[r].kind = "resume" /\ run[r].pc = "done" /\ run[r].result.success
    /\ run[r].seed.tokenUsage = [input |-> 3, output |-> 2]
    /\ run[r].okCalls = 1
    /\ run[r].tokenUsage = [input |-> 5, output |-> 3]

\* C29: a step in which a transport call of a run succeeds appends the
\* assistant's message to the history, whatever the stop reason, and if
\* the next transport call is made in the same step it carries a history
\* that differs from the one of the call that succeeded.
C29_HistoryUpdate ==
  [][\A r \in Runs :
       (SameRun(r) /\ run'[r].okCalls = run[r].okCalls + 1) =>
          /\ Len(run'[r].messages) > Len(run[r].messages)
          /\ run'[r].messages[Len(run[r].messages) + 1].role = "assistant"
          /\ run'[r].pc = "http" => run'[r].sent # run[r].sent]_vars

\* C30: with a transport that always requests tools, the iteration field
\* of every checkpoint written is the number of transport calls completed
\* when it was written, and a run that uses up its budget, resumed or not,
\* ends with maxIterations successful transport calls behind it, those
\* made before its checkpoint included.
C30_ResumeKeepsBudget ==
  /\ (stored # NoCheckpoint /\ stored.toolOnly) => stored.iteration = stored.done
  /\ \A r \in Runs :
       (/\ run[r].pc = "done" /\ run[r].error = "Maximum iterations reached"
        /\ run[r].priorToolOnly /\ run[r].onlyToolUse)
         => run[r].priorCalls + run[r].okCalls = maxIterations

\* C31: an exception of the checkpoint callback never reaches the run: no
\* run rejects, and a run() whose first transport call was answered with
\* end_turn ends with status complete and success = true, whatever the
\* callback did.
C31_BestEffortCheckpoint ==
  \A r \in Runs : Started(r) =>
    /\ run[r].pc # "rejected"
    /\ (/\ run[r].kind = "run" /\ Ended(r) /\ run[r].firstStop = "end_turn"
        /\ run[r].failures = 0 /\ ~run[r].stopSeen)
         => /\ run[r].status = "complete"
            /\ run[r].result # NoResult
            /\ run[r].result.success

\* The most HTTP requests that can fail in a row in one run.
MaxFailingRequests == MAX_RETRIES * MAX_CONSECUTIVE_ERRORS

\* The last call of chat threw: at once on a 4xx status other than 429,
\* otherwise after MAX_RETRIES requests.
ChatFailed(s) ==
  /\ s.lastError # NoError
  /\ (ClientError(s.lastError) \/ s.attempt = MAX_RETRIES)

\* C32: a run never sends more than 9 failing HTTP requests in a row
\* (3 attempts in each call of chat times 3 failed calls in a row); after
\* the 9th in a row, and after a failed call whose error the engine does
\* not retry, no further request is sent, and the run ends with status
\* error.
C32_BoundedFailures ==
  \A r \in Runs : Started(r) =>
    /\ run[r].failStreak <= MaxFailingRequests
    /\ (\/ run[r].failStreak = MaxFailingRequests
        \/ (ChatFailed(run[r]) /\ ~isRetryable(run[r].lastError)))
         => /\ run[r].pc \in {"rlsleep", "csleep", "done"}
            /\ run[r].pc = "done" =>
                  /\ run[r].status = "error"
                  /\ run[r].result # NoResult
                  /\ ~run[r].result.success

\* A run whose first call succeeded and that was then ended by nine
\* requests in a row answered 500.
C32_Witness ==
  \E r \in Runs :
    /\ run[r].pc = "done" /\ run[r].status = "error"
    /\ run[r].okCalls = 1
    /\ run[r].failStreak = MaxFailingRequests
    /\ run[r].lastError.status = 500

\* C33 as claimed: when a call of validateApiKey finishes, whatever its
\* outcome, the client has the rate limiter it had before the call; so
\* once a validation has finished and none is in progress, a chat call of
\* a client constructed with a limiter that is answered 429 with a retry
\* delay waits that delay under the limiter.
C33_LimiterRestored ==
  /\ [][\A c \in Validations :
          (validation[c].pc # "done" /\ validation'[c].pc = "done") =>
             rateLimiter' = validation[c].before]_vars
  /\ [][\A r \in Runs :
          (/\ env.limited
           /\ \E c \in Validations : validation[c].pc = "done"
           /\ \A c \in Validations : ~Validating(c)
           /\ run[r].pc = "http" /\ run'[r].pc \in {"rlsleep", "csleep"}
           /\ isRateLimited(run'[r].lastError)
           /\ run'[r].lastError.retryAfterMs # 0)
            => run'[r].pc = "rlsleep"]_vars

\* C34: a run during which stop() was not called never observes a stop,
\* also when stop() was called before it started (before any run, where
\* stop() changes nothing, or on the controller of an earlier run): it
\* starts with a controller that is not aborted, sends its first request
\* if it has iterations left (unless the checkpoint callback threw before
\* it), and does not end as stopped.
C34_StopNotCarriedOver ==
  /\ ~abortCtl.exists => ~abortCtl.aborted
  /\ \A r \in Runs : (Started(r) /\ ~run[r].stopReq) =>
        /\ ~run[r].stopSeen
        /\ run[r].error # StoppedError.msg
        /\ (EntersLoop(r) /\ ~run[r].cpThrew) => run[r].chatCalls >= 1
        /\ (run[r].fresh /\ Active(r)) => ~abortCtl.aborted

\* A run that was started after stop() had been called on the controller
\* of the run before it, and completed.
C34_Witness ==
  \E r \in Runs :
    /\ run[r].staleStop /\ ~run[r].stopReq
    /\ run[r].pc = "done" /\ run[r].status = "complete"
    /\ run[r].chatCalls >= 1

\* A resumed run started after such a stop sends its request.
C34_WitnessResume ==
  \E r \in Runs :
    /\ run[r].kind = "resume" /\ run[r].staleStop /\ ~run[r].stopReq
    /\ run[r].chatCalls >= 1

\* The first n samples of rec that were recorded less than windowMs
\* before the time at.
InWindow(rec, n, at) ==
  SelectSeq(SubSeq(rec, 1, n), LAMBDA u : at - u.timestamp < windowMs)

\* The sum of a sequence of numbers.
RECURSIVE Total(_)
Total(ns) == IF ns = <<>> THEN 0 ELSE Head(ns) + Total(Tail(ns))

\* The input, output and cache-creation tokens of the samples w.
WindowCost(w) ==
  Total([i \in 1..Len(w) |->
           w[i].inputTokens + w[i].outputTokens
             + OrZero(w[i].cacheCreationTokens)])

\* The cache-read tokens of the samples w.
WindowReads(w) == Total([i \in 1..Len(w) |-> OrZero(w[i].cacheReadTokens)])

\* What the getters last returned and what the last usage_update carried
\* are the sums over the samples then in the window.
ReturnsWindowSums ==
  /\ limiter.ret.fn = "getCurrentUsage" =>
        limiter.ret.value =
          WindowCost(InWindow(limiter.recorded, limiter.ret.samples,
                              limiter.ret.at))
  /\ limiter.ret.fn = "getCachedTokensRead" =>
        limiter.ret.value =
          WindowReads(InWindow(limiter.recorded, limiter.ret.samples,
                               limiter.ret.at))
  /\ limiter.event # NoUsageEvent =>
        limiter.event.currentUsage =
          WindowCost(InWindow(limiter.recorded, limiter.event.samples,
                              limiter.event.at))

\* C35: getCurrentUsage returns the sum of the input, output and
\* cache-creation tokens of exactly the samples recorded within the last
\* 60 seconds before the call, whatever was recorded and pruned before;
\* cache-read tokens are returned by getCachedTokensRead only; the
\* usage_update event of recordUsage carries the same sum; and recording a
\* sample is one step that neither starts nor ends a sleep of the limiter.
C35_WindowUsage ==
  [][/\ ReturnsWindowSums'
     /\ limiter'.recorded # limiter.recorded =>
           /\ limiter'.sleeping = limiter.sleeping
           /\ limiter'.event.samples = Len(limiter'.recorded)]_vars

\* getCurrentUsage has returned a sum that leaves out a sample recorded
\* exactly windowMs ago and the cache reads of a sample it counts.
C35_Witness ==
  /\ limiter.ret.fn = "getCurrentUsage"
  /\ Len(limiter.recorded) = MaxSamples
  /\ Len(limiter.usageHistory) = 1
  /\ \E i \in 1..Len(limiter.recorded) :
        limiter.ret.at - limiter.recorded[i].timestamp = windowMs
  /\ limiter.ret.value = 28
  /\ OrZero(limiter.usageHistory[1].cacheReadTokens) = 32

\* Every checkpoint given to the store so far: those it started with and
\* those of the saves in calls.
EverSaved(calls) ==
  {Checkpoint(i, 0) : i \in 1..session.before}
    \cup {Checkpoint(calls[k].iteration, calls[k].timestamp) : k \in 1..Len(calls)}

\* The list holds checkpoints of calls only, of an iteration the latest,
\* at most MAX_CHECKPOINTS of them, in ascending order of iteration.
ListWellFormed(calls) ==
  LET cps == loadSessionCheckpoints(session.item).checkpoints
      all == EverSaved(calls)
  IN /\ Len(cps) <= MAX_CHECKPOINTS
     /\ \A i, j \in 1..Len(cps) : i < j => cps[i].iteration < cps[j].iteration
     /\ \A i \in 1..Len(cps) :
          /\ cps[i] \in all
          /\ \A c \in all : c.iteration = cps[i].iteration
                             => c.timestamp <= cps[i].timestamp

\* The list holds every iteration of calls but those below the
\* MAX_CHECKPOINTS highest; currentIteration is the iteration of the last
\* call.
ListComplete(calls) ==
  LET cps == loadSessionCheckpoints(session.item).checkpoints
      cur == loadSessionCheckpoints(session.item).currentIteration
      its == {c.iteration : c \in EverSaved(calls)}
  IN /\ \A it \in its :
          (\E i \in 1..Len(cps) : cps[i].iteration = it)
            \/ (/\ Len(cps) = MAX_CHECKPOINTS
                /\ \A i \in 1..Len(cps) : it < cps[i].iteration)
     /\ calls # <<>> => cur = calls[Len(calls)].iteration

ListReflects(calls) == ListWellFormed(calls) /\ ListComplete(calls)

\* C36 as claimed: after any sequence of saveIterationCheckpoint calls
\* (nothing deleted or cleared) the list reflects all of them.
C36_Original == session.removals = 0 => ListReflects(session.saves)

\* C36 amended: after any sequence of saveIterationCheckpoint calls the
\* list reflects the calls whose write to localStorage succeeded, a call
\* whose write failed having changed nothing; with checkpoints deleted or
\* the session cleared in between, the list still holds only the latest
\* stored checkpoint of an iteration, sorted, at most MAX_CHECKPOINTS.
C36_CheckpointList ==
  LET written == SelectSeq(session.saves, LAMBDA c : c.stored)
  IN /\ ListWellFormed(written)
     /\ session.removals = 0 => ListComplete(written)

\* A checkpoint was deleted from a full list and a later save stored it
\* anew.
C36_DeletedAndSavedAgain ==
  LET cps == loadSessionCheckpoints(session.item).checkpoints IN
  /\ session.removals > 0
  /\ session.before = MAX_CHECKPOINTS
  /\ Len(cps) = MAX_CHECKPOINTS
  /\ cps[1].iteration = 1 /\ cps[1].timestamp > 0

\* A full list took a save for a new highest iteration and one that
\* replaced a stored iteration, and a save whose write failed; the lowest
\* iteration was dropped.
C36_Witness ==
  LET cps == loadSessionCheckpoints(session.item).checkpoints IN
  /\ session.removals = 0
  /\ session.before = MAX_CHECKPOINTS
  /\ Len(session.saves) = MaxSaves
  /\ \E k \in 1..Len(session.saves) : ~session.saves[k].stored
  /\ Len(cps) = MAX_CHECKPOINTS
  /\ cps[1].iteration = 2
  /\ cps[Len(cps)].iteration = MAX_CHECKPOINTS + 1
  /\ \E i \in 1..Len(cps) :
        cps[i].iteration = MAX_CHECKPOINTS /\ cps[i].timestamp > 0

\* The message is one the API accepts in form: a role of the two, text
\* that is not empty or blocks that have a type and, for tool blocks, an
\* id.
WellFormed(message) ==
  /\ message.role \in {"user", "assistant"}
  /\ message.content.t = "string" => message.content.text # ""
  /\ message.content.t = "array" =>
        \A k \in 1..Len(message.content.blocks) :
          LET b == message.content.blocks[k] IN
          /\ b.type # "" /\ b.rest
          /\ b.type = "tool_use" => b.id # ""
          /\ b.type = "tool_result" => b.tool_use_id # ""

\* Some tool_result block of a user message of the list refers to an id
\* that no tool_use block of an assistant message before it has.
BrokenPairing(messages) ==
  \E i \in 1..Len(messages) :
    /\ messages[i].role = "user" /\ messages[i].content.t = "array"
    /\ \E k \in 1..Len(messages[i].content.blocks) :
          LET b == messages[i].content.blocks[k] IN
          /\ b.type = "tool_result"
          /\ ~\E j \in 1..(i - 1) :
                /\ messages[j].role = "assistant" /\ messages[j].content.t = "array"
                /\ \E l \in 1..Len(messages[j].content.blocks) :
                      /\ messages[j].content.blocks[l].type = "tool_use"
                      /\ messages[j].content.blocks[l].id = b.tool_use_id

InBounds == edit.editIndex >= 0 /\ edit.editIndex < Len(edit.given)
Edited == [edit.given EXCEPT ![edit.editIndex + 1] = edit.newMessage]

\* Some tool_result block of the list, in a message of either role,
\* refers to an id that no tool_use block of a message before it has.
DanglingResult(messages) ==
  \E i \in 1..Len(messages) :
    /\ messages[i].content.t = "array"
    /\ \E k \in 1..Len(messages[i].content.blocks) :
          LET b == messages[i].content.blocks[k] IN
          /\ b.type = "tool_result"
          /\ ~\E j \in 1..(i - 1) :
                /\ messages[j].content.t = "array"
                /\ \E l \in 1..Len(messages[j].content.blocks) :
                      /\ messages[j].content.blocks[l].type = "tool_use"
                      /\ messages[j].content.blocks[l].id = b.tool_use_id

\* C37 as claimed: an edit in bounds of well-formed messages that leaves
\* any tool_result without its tool_use earlier in the list returns
\* valid = true with a warning.
C37_Original ==
  (/\ edit.pc = "done" /\ InBounds
   /\ \A i \in 1..Len(Edited) : WellFormed(Edited[i])
   /\ DanglingResult(Edited))
     => edit.result.valid /\ edit.result.warnings # <<>>

\* C37 amended: validateMessageEdit returns valid = false only when the index is
\* out of bounds or the new message or a message of the list is malformed,
\* and in each of these cases; an edit in bounds of well-formed messages
\* that leaves a tool_result of a user message without its tool_use
\* earlier in the list returns valid = true and the warning for the
\* unknown id; and the list passed in is afterwards as it was.
C37_FlaggedNotPrevented ==
  edit.pc = "done" =>
    /\ ~edit.result.valid <=>
          \/ ~InBounds
          \/ ~WellFormed(edit.newMessage)
          \/ \E i \in 1..Len(Edited) : ~WellFormed(Edited[i])
    /\ edit.result.valid <=> edit.result.errors = <<>>
    /\ (InBounds /\ \A i \in 1..Len(Edited) : WellFormed(Edited[i])) =>
          (BrokenPairing(Edited) <=>
             \E k \in 1..Len(edit.result.warnings) :
                edit.result.warnings[k].text = "tool_result references unknown tool_use_id")
    /\ edit.messages = edit.given

\* The assistant message with the tool_use was replaced by one with
\* another tool_use: valid, with the warning for the tool_result after it.
C37_Witness ==
  /\ edit.pc = "done"
  /\ Len(edit.given) = 3 /\ edit.editIndex = 1
  /\ ~BrokenPairing(edit.given) /\ BrokenPairing(Edited)
  /\ HasBlock(edit.given[2], "tool_use")
  /\ HasBlock(edit.given[3], "tool_result")
  /\ edit.result.valid
  /\ Len(edit.result.warnings) = 2

RECURSIVE Concat(_, _)
Concat(phases, field) ==
  IF phases = <<>> THEN <<>>
  ELSE Head(phases)[field] \o Concat(Tail(phases), field)

\* The phases are index ranges that follow one another from 0 to the
\* length of the list, none of them empty, each with its messages.
Partitions(phases, messages) ==
  /\ phases = <<>> <=> messages = <<>>
  /\ phases # <<>> =>
        /\ phases[1].startIndex = 0
        /\ phases[Len(phases)].endIndex = Len(messages)
  /\ \A k \in 1..Len(phases) :
        /\ phases[k].startIndex < phases[k].endIndex
        /\ k > 1 => phases[k].startIndex = phases[k - 1].endIndex
        /\ phases[k].messages =
              [i \in 1..(phases[k].endIndex - phases[k].startIndex) |->
                 messages[phases[k].startIndex + i]]
  /\ Concat(phases, "messages") = messages

\* The phases hold the events in order, each once; a phase before the
\* last has no complete event but at its end, and has one there when the
\* phase after it has events.
EventsInOrder(phases, events) ==
  /\ Concat(phases, "events") = events
  /\ \A k \in 1..(Len(phases) - 1) :
        LET es == phases[k].events IN
        /\ \A i \in 1..(Len(es) - 1) : es[i].type # "complete"
        /\ phases[k + 1].events # <<>> =>
              es # <<>> /\ es[Len(es)].type = "complete"

\* C38 as claimed: for every message list the phases partition it, and
\* every event is in exactly one phase.
C38_Original ==
  tracking.pc = "done" =>
    /\ Partitions(tracking.phases, tracking.messages)
    /\ EventsInOrder(tracking.phases, tracking.events)

\* C38 amended: for every message list the phases partition it; when
\* there is a phase every event is in exactly one phase, in order, and
\* the next phase begins after a complete event; for the empty list there
\* is no phase and the events are in none.
C38_PhasePartition ==
  tracking.pc = "done" =>
    /\ Partitions(tracking.phases, tracking.messages)
    /\ tracking.phases # <<>> => EventsInOrder(tracking.phases, tracking.events)
    /\ tracking.messages = <<>> => tracking.phases = <<>>

\* Three phases, the first without a marker, with an event in each.
C38_Witness ==
  /\ tracking.pc = "done"
  /\ Len(tracking.phases) = 3
  /\ tracking.phases[1].name = "exploration"
  /\ tracking.phases[2].name = "code-writing"
  /\ tracking.phases[3].name = "presentation"
  /\ \A k \in 1..3 : Len(tracking.phases[k].events) = 1

\* C39: the file holds entries in logging order, none twice, and every
\* entry logged so far is in the file or still pending in logEntries (from
\* where a later flush writes it), also while flushes are in progress.
C39_NothingLost ==
  /\ \A i, j \in 1..Len(logger.file) :
        i < j => logger.file[i] < logger.file[j]
  /\ \A e \in 1..logger.logged :
        \/ \E i \in 1..Len(logger.file) : logger.file[i] = e
        \/ \E i \in 1..Len(logger.logEntries) : logger.logEntries[i] = e

====
